---- MODULE Spec2Model ----
(***************************************************************************)
(* Grid maintenance engine of the trading bot (src/src/advanced/grid.py),  *)
(* start_grid_trading, together with the exchange gateway it talks to,     *)
(* and the TWAP engine (src/src/advanced/twap.py), execute_twap_order.     *)
(* Spec runs a grid session, SpecLadder its initial placement alone,       *)
(* SpecTwap a TWAP call.                                                   *)
(*                                                                         *)
(* Numbers.  Prices are Python floats in the program.  Here a price is an  *)
(* exact rational: bounds are integers counted in sub-ticks (TickSub       *)
(* sub-ticks make one 0.01 price tick, so round(x, 2) is a real            *)
(* conversion), and inside a session every price is held as a numerator    *)
(* over the denominator num_grids, so that                                 *)
(* grid_step = price_range / num_grids is exact: the price p is the        *)
(* integer p * num_grids (see Fx).                                         *)
(***************************************************************************)
EXTENDS Integers, Sequences, FiniteSets, TLC

\* sub-ticks per 0.01 price tick: the resolution below round(price, 2)
TickSub == 4

(***************************************************************************)
(* Bounds of the model                                                     *)
(***************************************************************************)
MaxGrids == 1
MaxLadder == 5
MaxCycles == 2
MaxFills == 2
MaxFailures == 2
MaxChunks == 3


\* order id of an order on the same symbol that is not the engine's
ForeignOrderId == 0

(***************************************************************************)
(* Inputs offered to start_grid_trading                                    *)
(***************************************************************************)
BTCUSDT == <<"B", "T", "C", "U", "S", "D", "T">>
SymbolInputs ==
    { BTCUSDT,
      <<"b", "t", "c", "u", "s", "d", "t">>,
      <<"B", "T", "C">>,
      <<"B", "T", "C", "E", "U", "R">> }
QuantityInputs == {0, 1}
IntervalInputs == {0, 60}
\* <<lower_bound, upper_bound>> in sub-ticks: 0.01/0.05 lies on the tick,
\* 0.01/0.0475 does not; the others are rejected.  No price of these
\* grids falls halfway between two ticks, where round() would depend on the
\* float's last bits.
BoundsInputs == {<<4, 20>>, <<4, 19>>, <<0, 4>>, <<4, 0>>, <<4, 4>>,
                 <<20, 4>>}
NumGridsInputs == 0 .. MaxGrids
\* the ladder alone is also built for deeper grids: 40000.00/50000.00,
\* 0.01/1.01 and 0.0125/0.0475
LadderBoundsInputs == {<<40000 * 100 * TickSub, 50000 * 100 * TickSub>>,
                       <<4, 404>>, <<5, 19>>}
LadderNumGridsInputs == 1 .. MaxLadder

(***************************************************************************)
(* src/src/validators.py                                                   *)
(***************************************************************************)
LowerChars == {"b", "t", "c", "u", "s", "d"}
UpperChars == {"B", "T", "C", "U", "S", "D", "E", "R", "H"}

\* str.isupper(): at least one cased character and no lowercase one
IsUpper(s) ==
    /\ \E k \in 1 .. Len(s) : s[k] \in UpperChars
    /\ \A k \in 1 .. Len(s) : s[k] \notin LowerChars

\* str.endswith(suffix)
EndsWith(s, suffix) ==
    /\ Len(suffix) <= Len(s)
    /\ SubSeq(s, Len(s) - Len(suffix) + 1, Len(s)) = suffix

valid_quotes ==
    { <<"U", "S", "D", "T">>, <<"B", "U", "S", "D">>, <<"U", "S", "D">>,
      <<"B", "T", "C">>, <<"E", "T", "H">> }

validate_symbol(s) ==
    /\ Len(s) >= 6
    /\ IsUpper(s)
    /\ \E q \in valid_quotes : EndsWith(s, q)

validate_quantity(q) == q > 0

validate_price(p) == p > 0

(***************************************************************************)
(* Arithmetic of start_grid_trading                                        *)
(***************************************************************************)
\* a bound or price given in sub-ticks, as a numerator over n
Fx(v, n) == v * n

\* round(price, 2): to the closest multiple of the tick, ties to the even
\* multiple; x and the result are numerators over n
Round2(x, n) ==
    LET u == TickSub * n
        q == x \div u
        r == x % u
    IN  IF 2 * r < u THEN q * u
        ELSE IF 2 * r > u THEN (q + 1) * u
        ELSE IF q % 2 = 0 THEN q * u ELSE (q + 1) * u

\* grid_step = price_range / num_grids, as a numerator over num_grids
GridStep(lower, upper, n) == upper - lower

\* BuyPrice with the levels counted from one
BuyPriceFromOne(lower, upper, n, i) ==
    Round2(Fx(lower, n) + (i + 1) * GridStep(lower, upper, n), n)

\* price of the i-th initial BUY order (lines 162-165)
BuyPrice(lower, upper, n, i) ==
    Round2(Fx(lower, n) + i * GridStep(lower, upper, n), n)

\* price of the i-th initial SELL order (lines 204-207)
SellPrice(lower, upper, n, i) ==
    Round2(Fx(upper, n) - i * GridStep(lower, upper, n), n)

\* the validation cascade of lines 76-119: TRUE when every check passes
ParamsValid(sym, qty, lower, upper, n, interval) ==
    /\ validate_symbol(sym)
    /\ validate_quantity(qty)
    /\ validate_price(lower)
    /\ validate_price(upper)
    /\ ~(upper <= lower)
    /\ ~(n <= 0)
    /\ ~(interval <= 0)


(***************************************************************************)
(* State                                                                   *)
(***************************************************************************)
VARIABLES
    \* arguments of the call
    symbol, quantity_per_grid, lower_bound, upper_bound, num_grids,
    monitor_interval_seconds,
    \* module global (line 26)
    grid_running,
    \* position in start_grid_trading and its locals
    pc, i, grid_orders, total_buy_orders_placed, total_sell_orders_placed,
    total_buy_fills, total_sell_fills, cycle_count, open_order_ids,
    filled_order_ids, cancel_keys, cancelled_count, result,
    \* the exchange: ids of the orders resting there, next id it hands out
    exchange_open, next_order_id,
    \* history: gateway calls issued, fills processed, sleeps taken,
    \* tracker and counters as they were at the last fetch, whether
    \* stop_grid() was called since the call began, where Ctrl+C struck
    calls, fill_log, sleeps, snap, stop_requested, interrupted,
    \* budget used by the environment
    nfills, nfailures

args == <<symbol, quantity_per_grid, lower_bound, upper_bound, num_grids,
          monitor_interval_seconds>>
counters == <<total_buy_orders_placed, total_sell_orders_placed,
              total_buy_fills, total_sell_fills>>
grid_vars == <<args, grid_running, pc, i, grid_orders, counters,
               cycle_count, open_order_ids, filled_order_ids, cancel_keys,
               cancelled_count, result, exchange_open, next_order_id, calls,
               fill_log, sleeps, snap, stop_requested, interrupted, nfills,
               nfailures>>

grid_step == GridStep(lower_bound, upper_bound, num_grids)

\* execute_twap_order (src/src/advanced/twap.py): its arguments, its
\* position and locals, and the history of its gateway calls and sleeps;
\* num_orders_arg and interval_seconds_arg are the arguments as passed,
\* num_orders and interval_seconds the locals after int()
VARIABLES
    twap_symbol, twap_side, total_quantity, num_orders_arg,
    interval_seconds_arg,
    twap_pc, num_orders, interval_seconds, chunk_quantity, chunk_i,
    executed_orders, failed_orders, total_executed_qty, twap_result,
    twap_log

twap_args == <<twap_symbol, twap_side, total_quantity, num_orders_arg,
               interval_seconds_arg>>
twap_vars == <<twap_args, twap_pc, num_orders, interval_seconds,
               chunk_quantity, chunk_i, executed_orders, failed_orders,
               total_executed_qty, twap_result, twap_log>>

\* place_oco_for_position (src/src/advanced/oco.py): its arguments, its
\* position, the answer to the take-profit order, the history of its
\* gateway calls and what it returns
VARIABLES
    oco_symbol, position_side, position_quantity, take_profit_price,
    stop_price,
    oco_pc, take_profit_response, oco_calls, oco_result

oco_args == <<oco_symbol, position_side, position_quantity,
              take_profit_price, stop_price>>
oco_vars == <<oco_args, oco_pc, take_profit_response, oco_calls, oco_result>>

vars == <<grid_vars, twap_vars, oco_vars>>

(***************************************************************************)
(* The tracker grid_orders: a dict, kept in insertion order                *)
(***************************************************************************)
Keys(d) == [k \in 1 .. Len(d) |-> d[k].order_id]
KeySet(d) == {d[k].order_id : k \in 1 .. Len(d)}
Lookup(d, id) == d[CHOOSE k \in 1 .. Len(d) : d[k].order_id = id]

\* DictSet forgetting the entry
DictSetForgets(d, info) == d

\* d[id] = info
DictSet(d, info) ==
    IF info.order_id \in KeySet(d)
    THEN [k \in 1 .. Len(d) |->
            IF d[k].order_id = info.order_id THEN info ELSE d[k]]
    ELSE Append(d, info)

\* DictDel leaving the entry in place
DictDelNothing(d, id) == d

\* del d[id]
DictDel(d, id) == SelectSeq(d, LAMBDA e : e.order_id # id)

\* TrackedOrder putting every order on grid level 0
TrackedOrderLevelZero(id, side, price, level, qty) ==
    [order_id |-> id, side |-> side, price |-> price, grid_level |-> 0,
     quantity |-> qty]

\* lines 180-185, 222-227, 341-346: the value stored under the order id
TrackedOrder(id, side, price, level, qty) ==
    [order_id |-> id, side |-> side, price |-> price, grid_level |-> level,
     quantity |-> qty]

(***************************************************************************)
(* Gateway calls, as recorded in the history                               *)
(***************************************************************************)
NoId == -1
CreateCall(side, price, qty, level, ok, id, of) ==
    [op |-> "create", side |-> side, price |-> price, quantity |-> qty,
     grid_level |-> level, ok |-> ok, order_id |-> id, of |-> of,
     cycle |-> cycle_count]
FetchCall(ok, cycle) ==
    [op |-> "open_orders", side |-> "", price |-> 0, quantity |-> 0,
     grid_level |-> -1, ok |-> ok, order_id |-> NoId, of |-> NoId,
     cycle |-> cycle]
CancelCall(id, ok) ==
    [op |-> "cancel", side |-> "", price |-> 0, quantity |-> 0,
     grid_level |-> -1, ok |-> ok, order_id |-> id, of |-> NoId,
     cycle |-> cycle_count]

\* what the caller gets back
Pending == [kind |-> "pending", cycles |-> 0, total_buy_orders |-> 0,
            total_sell_orders |-> 0, buy_fills |-> 0, sell_fills |-> 0,
            orders_cancelled |-> 0, total_trades |-> 0]
ReturnNone == [Pending EXCEPT !.kind = "None"]
Raised == [Pending EXCEPT !.kind = "KeyboardInterrupt"]

\* Summary reporting the BUY fills alone as the trades
SummaryBuyTradesOnly(cycles, bo, so, bf, sf, cancelled) ==
    [kind |-> "summary", cycles |-> cycles, total_buy_orders |-> bo,
     total_sell_orders |-> so, buy_fills |-> bf, sell_fills |-> sf,
     orders_cancelled |-> cancelled, total_trades |-> bf]

\* Summary reporting every order left in the tracker as cancelled
SummaryAllCancelled(cycles, bo, so, bf, sf, cancelled) ==
    [kind |-> "summary", cycles |-> cycles, total_buy_orders |-> bo,
     total_sell_orders |-> so, buy_fills |-> bf, sell_fills |-> sf,
     orders_cancelled |-> (bo + so) - (bf + sf), total_trades |-> bf + sf]

\* the dict of lines 416-425
Summary(cycles, bo, so, bf, sf, cancelled) ==
    [kind |-> "summary", cycles |-> cycles, total_buy_orders |-> bo,
     total_sell_orders |-> so, buy_fills |-> bf, sell_fills |-> sf,
     orders_cancelled |-> cancelled, total_trades |-> bf + sf]

NoSnap == [cycle |-> 0, ok |-> FALSE, tracked |-> <<>>, open |-> {},
           buy_fills |-> 0, sell_fills |-> 0]

(***************************************************************************)
(* execute_twap_order: inputs, numbers, records                            *)
(*                                                                         *)
(* Numbers.  Quantities and prices are Python floats in the program; here  *)
(* they are exact: a quantity is an integer number of lots, a quotient is  *)
(* kept as a fraction (Frac), and an argument that need not be an integer  *)
(* (num_orders, interval_seconds) is counted in halves, so that int() is   *)
(* a real truncation.                                                      *)
(***************************************************************************)
Frac(n, d) == [num |-> n, den |-> d]
FracEq(a, b) == a.num * b.den = b.num * a.den

\* int(x) for x given in halves: truncation towards zero
IntOf(halves) ==
    IF halves >= 0 THEN halves \div 2 ELSE -((-halves) \div 2)

BUY == <<"B", "U", "Y">>
SELL == <<"S", "E", "L", "L">>
\* str.upper() on the characters that occur in the inputs offered
UpperOf(c) ==
    CASE c = "b" -> "B"
      [] c = "u" -> "U"
      [] c = "y" -> "Y"
      [] c = "s" -> "S"
      [] c = "e" -> "E"
      [] c = "l" -> "L"
      [] c = "t" -> "T"
      [] c = "c" -> "C"
      [] c = "d" -> "D"
      [] c = "o" -> "O"
      [] c = "n" -> "N"
      [] c = "g" -> "G"
      [] c = "h" -> "H"
      [] c = "r" -> "R"
      [] OTHER -> c
Upper(str) == [k \in 1 .. Len(str) |-> UpperOf(str[k])]

\* validators.py, validate_side
validate_side(sd) == Upper(sd) \in {BUY, SELL}

TwapSymbolInputs == {BTCUSDT, <<"B", "T", "C">>}
SideInputs == {BUY, SELL, <<"b", "u", "y">>, <<"H", "O", "L", "D">>}
\* total_quantity in lots
TotalQuantityInputs == {0, 3}
\* num_orders in halves: -1, 0, 0.5, 1, 1.5, ... MaxChunks + 0.5
NumOrdersInputs == {-2} \cup (0 .. 2 * MaxChunks + 1)
\* interval_seconds in halves: 0, 0.5, 5
IntervalSecondsInputs == {0, 1, 10}

\* what the gateway answers to a market order: it accepts it and reports
\* <<executedQty, avgPrice>> (0, 0 when it only acknowledges the order), or
\* the call raises BinanceAPIException, or another Exception
ReportInputs == {<<0, 0>>, <<1, 100>>, <<1, 102>>, <<2, 100>>}
APIErrorCode == -2019
Unknown == 0
TwapOutcomes ==
    {[kind |-> "ok", executed_qty |-> r[1], avg_price |-> r[2],
      error_code |-> Unknown] : r \in ReportInputs}
    \cup {[kind |-> "api_error", executed_qty |-> 0, avg_price |-> 0,
           error_code |-> APIErrorCode],
          [kind |-> "error", executed_qty |-> 0, avg_price |-> 0,
           error_code |-> Unknown]}

\* the call did not come back: the caller never saw an answer
NoResponse == [kind |-> "none", executed_qty |-> 0, avg_price |-> 0,
               error_code |-> Unknown]

\* entries of the history; response is what the gateway answered
TwapCreateCall(chunk_number, sym, sd, qty, accepted, id, response) ==
    [op |-> "create", chunk_number |-> chunk_number, symbol |-> sym,
     side |-> sd, type |-> "MARKET", quantity |-> qty,
     accepted |-> accepted, order_id |-> id, seconds |-> 0,
     response |-> response]
TwapSleep(chunk_number, seconds) ==
    [op |-> "sleep", chunk_number |-> chunk_number, symbol |-> <<>>,
     side |-> <<>>, type |-> "", quantity |-> Frac(0, 1),
     accepted |-> FALSE, order_id |-> NoId, seconds |-> seconds,
     response |-> NoResponse]

\* ExecutedOrder without the order id
ExecutedOrderWithoutId(chunk_number, id, executed_qty, avg_price) ==
    [chunk_number |-> chunk_number, order_id |-> NoId,
     executed_qty |-> executed_qty, avg_price |-> avg_price]

\* entries of executed_orders (lines 153-160) and failed_orders (169-173,
\* 183-187)
ExecutedOrder(chunk_number, id, executed_qty, avg_price) ==
    [chunk_number |-> chunk_number, order_id |-> id,
     executed_qty |-> executed_qty, avg_price |-> avg_price]
FailedOrder(chunk_number, code) ==
    [chunk_number |-> chunk_number, error_code |-> code]

\* line 214: sum(order['executed_qty'] * order['avg_price'] ...)
RECURSIVE TotalValue(_)
TotalValue(orders) ==
    IF Len(orders) = 0 THEN 0
    ELSE orders[1].executed_qty * orders[1].avg_price
            + TotalValue(Tail(orders))

\* AvgExecutionPrice as the plain mean of the chunk prices
AvgExecutionPriceUnweighted(orders, qty) ==
    IF Len(orders) > 0
    THEN IF qty > 0
         THEN LET RECURSIVE SumPrice(_)
                  SumPrice(os) == IF Len(os) = 0 THEN 0
                                  ELSE os[1].avg_price + SumPrice(Tail(os))
              IN  Frac(SumPrice(orders), Len(orders))
         ELSE Frac(0, 1)
    ELSE Frac(0, 1)

\* lines 212-215 and 233
AvgExecutionPrice(orders, qty) ==
    IF Len(orders) > 0
    THEN IF qty > 0 THEN Frac(TotalValue(orders), qty) ELSE Frac(0, 1)
    ELSE Frac(0, 1)

\* what the caller of execute_twap_order gets back
TwapPending ==
    [kind |-> "pending", success |-> FALSE, total_chunks |-> 0,
     executed_chunks |-> 0, failed_chunks |-> 0, target_quantity |-> 0,
     executed_quantity |-> 0, executed_orders |-> <<>>,
     failed_orders |-> <<>>, avg_execution_price |-> Frac(0, 1)]
TwapNone == [TwapPending EXCEPT !.kind = "None"]
TwapRaised == [TwapPending EXCEPT !.kind = "KeyboardInterrupt"]

\* TwapSummary with success set when some chunk was executed
TwapSummaryAnySuccess(n, target, executed, failed, qty) ==
    [kind |-> "summary", success |-> Len(executed) > 0, total_chunks |-> n,
     executed_chunks |-> Len(executed), failed_chunks |-> Len(failed),
     target_quantity |-> target, executed_quantity |-> qty,
     executed_orders |-> executed, failed_orders |-> failed,
     avg_execution_price |-> AvgExecutionPrice(executed, qty)]

\* TwapSummary giving up, as the grid engine does, when no chunk was executed
TwapSummaryNoneIfNothingExecuted(n, target, executed, failed, qty) ==
    IF Len(executed) = 0
    THEN TwapNone
    ELSE [kind |-> "summary", success |-> Len(failed) = 0,
          total_chunks |-> n, executed_chunks |-> Len(executed),
          failed_chunks |-> Len(failed), target_quantity |-> target,
          executed_quantity |-> qty, executed_orders |-> executed,
          failed_orders |-> failed,
          avg_execution_price |-> AvgExecutionPrice(executed, qty)]

\* the dict of lines 224-234
TwapSummary(n, target, executed, failed, qty) ==
    [kind |-> "summary", success |-> Len(failed) = 0, total_chunks |-> n,
     executed_chunks |-> Len(executed), failed_chunks |-> Len(failed),
     target_quantity |-> target, executed_quantity |-> qty,
     executed_orders |-> executed, failed_orders |-> failed,
     avg_execution_price |-> AvgExecutionPrice(executed, qty)]

\* lines 61-94: TRUE when every check passes
TwapParamsValid(sym, sd, qty, n_halves, interval_halves) ==
    /\ validate_symbol(sym)
    /\ validate_side(sd)
    /\ validate_quantity(qty)
    /\ ~(IntOf(n_halves) <= 0)
    /\ ~(IntOf(interval_halves) <= 0)

TwapInitWith(symbols, sides, quantities, orders, intervals) ==
    /\ twap_symbol \in symbols
    /\ twap_side \in sides
    /\ total_quantity \in quantities
    /\ num_orders_arg \in orders
    /\ interval_seconds_arg \in intervals
    /\ twap_pc = "idle"
    /\ num_orders = 0
    /\ interval_seconds = 0
    /\ chunk_quantity = Frac(0, 1)
    /\ chunk_i = 0
    /\ executed_orders = <<>>
    /\ failed_orders = <<>>
    /\ total_executed_qty = 0
    /\ twap_result = TwapPending
    /\ twap_log = <<>>

\* no call of execute_twap_order is made
TwapAtRest == TwapInitWith({BTCUSDT}, {BUY}, {3}, {2}, {10})

(***************************************************************************)
(* place_oco_for_position: inputs and records.  Prices are whole numbers   *)
(* of ticks.                                                               *)
(***************************************************************************)
LONG == <<"L", "O", "N", "G">>
SHORT == <<"S", "H", "O", "R", "T">>

OcoSymbolInputs == {BTCUSDT, <<"B", "T", "C">>}
PositionSideInputs == {LONG, SHORT, <<"l", "o", "n", "g">>,
                       <<"H", "O", "L", "D">>}
PositionQuantityInputs == {0, 1}
TakeProfitPriceInputs == {0, 1, 2, 3}
StopPriceInputs == {0, 2}

\* what the gateway does with a create call: it accepts the order, raises
\* BinanceAPIException, or something else goes wrong
OcoOutcomes == {"ok", "api_error", "error"}

\* lines 107-139: the side and the parameters of the two orders
OrderSide(position_side_upper) ==
    IF position_side_upper = LONG THEN "SELL" ELSE "BUY"

OcoParams(type, sym, order_side, price) ==
    [symbol |-> Upper(sym), side |-> order_side, type |-> type,
     stopPrice |-> price, closePosition |-> TRUE]

\* the order the gateway returns for accepted parameters
OcoResponse(id, params) ==
    [orderId |-> id, symbol |-> params.symbol, side |-> params.side,
     type |-> params.type, stopPrice |-> params.stopPrice]

OcoNoResponse ==
    [orderId |-> NoId, symbol |-> <<>>, side |-> "", type |-> "",
     stopPrice |-> 0]

\* a call of futures_create_order as recorded in the history
OcoCall(params, outcome, response) ==
    [params |-> params, outcome |-> outcome, response |-> response]

\* what place_oco_for_position returns
OcoPending ==
    [kind |-> "pending", take_profit |-> OcoNoResponse,
     stop_loss |-> OcoNoResponse]
OcoNone == [OcoPending EXCEPT !.kind = "None"]

\* lines 163-166: the dict of both responses
OcoResult(tp, sl) == [kind |-> "dict", take_profit |-> tp, stop_loss |-> sl]

\* lines 69-104: TRUE when every check passes
OcoParamsValid(sym, ps, qty, tp, sp) ==
    /\ validate_symbol(sym)
    /\ Upper(ps) \in {LONG, SHORT}
    /\ validate_quantity(qty)
    /\ validate_price(tp)
    /\ validate_price(sp)
    /\ IF Upper(ps) = LONG THEN ~(tp <= sp) ELSE ~(tp >= sp)

OcoInitWith(symbols, sides, quantities, tps, sps) ==
    /\ oco_symbol \in symbols
    /\ position_side \in sides
    /\ position_quantity \in quantities
    /\ take_profit_price \in tps
    /\ stop_price \in sps
    /\ oco_pc = "idle"
    /\ take_profit_response = OcoNoResponse
    /\ oco_calls = <<>>
    /\ oco_result = OcoPending

\* no call of place_oco_for_position is made
OcoAtRest == OcoInitWith({BTCUSDT}, {LONG}, {1}, {3}, {2})

(***************************************************************************)
(* Init: the module is loaded, a call is about to be made                  *)
(***************************************************************************)
InitWith(symbols, quantities, bounds, grids, intervals) ==
    /\ symbol \in symbols
    /\ quantity_per_grid \in quantities
    /\ \E b \in bounds : lower_bound = b[1] /\ upper_bound = b[2]
    /\ num_grids \in grids
    /\ monitor_interval_seconds \in intervals
    /\ grid_running = TRUE
    /\ pc = "idle"
    /\ i = 0
    /\ grid_orders = <<>>
    /\ total_buy_orders_placed = 0
    /\ total_sell_orders_placed = 0
    /\ total_buy_fills = 0
    /\ total_sell_fills = 0
    /\ cycle_count = 0
    /\ open_order_ids = {}
    /\ filled_order_ids = <<>>
    /\ cancel_keys = <<>>
    /\ cancelled_count = 0
    /\ result = Pending
    /\ exchange_open = {ForeignOrderId}
    /\ next_order_id = 1
    /\ calls = <<>>
    /\ fill_log = <<>>
    /\ sleeps = 0
    /\ snap = NoSnap
    /\ stop_requested = FALSE
    /\ interrupted = "no"
    /\ nfills = 0
    /\ nfailures = 0

Init ==
    /\ InitWith(SymbolInputs, QuantityInputs, BoundsInputs, NumGridsInputs,
                IntervalInputs)
    /\ TwapAtRest
    /\ OcoAtRest

\* valid calls only, with deeper grids: used to study the initial ladder
InitLadder ==
    /\ InitWith({BTCUSDT}, {1}, LadderBoundsInputs, LadderNumGridsInputs,
                {60})
    /\ TwapAtRest
    /\ OcoAtRest

\* no call of start_grid_trading is made
GridAtRest == InitWith({BTCUSDT}, {1}, {<<4, 20>>}, {1}, {60})

\* a call of execute_twap_order is about to be made
InitTwap ==
    /\ GridAtRest
    /\ TwapInitWith(TwapSymbolInputs, SideInputs, TotalQuantityInputs,
                    NumOrdersInputs, IntervalSecondsInputs)
    /\ OcoAtRest

InitOco ==
    /\ GridAtRest
    /\ TwapAtRest
    /\ OcoInitWith(OcoSymbolInputs, PositionSideInputs,
                   PositionQuantityInputs, TakeProfitPriceInputs,
                   StopPriceInputs)

(***************************************************************************)
(* Pure steps of the monitoring cycle                                      *)
(***************************************************************************)
\* FilledOrderIds stopping at the first match
FilledOrderIdsFirstOnly(d, open_ids) ==
    LET f == SelectSeq(Keys(d), LAMBDA id : id \notin open_ids)
    IN  IF Len(f) = 0 THEN f ELSE <<f[1]>>

\* FilledOrderIds taking every tracked order for filled unless the open
\* set is the tracker's key set
FilledOrderIdsUnlessSame(d, open_ids) ==
    IF open_ids = KeySet(d) THEN <<>> ELSE Keys(d)

\* lines 274-277: the tracked ids that are not in the fetched open set
FilledOrderIds(d, open_ids) ==
    SelectSeq(Keys(d), LAMBDA id : id \notin open_ids)

\* lines 306-315: side of the opposite order
NewSide(side) == IF side = "BUY" THEN "SELL" ELSE "BUY"

\* NewPrice without the rounding
NewPriceUnrounded(side, price, step, n) ==
    IF side = "BUY" THEN price + step ELSE price - step

\* lines 306-318: price of the opposite order, rounded
NewPrice(side, price, step, n) ==
    IF side = "BUY" THEN Round2(price + step, n) ELSE Round2(price - step, n)

\* OutsideBounds testing the lower bound only
OutsideBoundsLowerOnly(new_price, lower, upper, n) ==
    new_price < Fx(lower, n)

\* OutsideBounds taking the bounds themselves for outside
OutsideBoundsInclusive(new_price, lower, upper, n) ==
    new_price <= Fx(lower, n) \/ new_price >= Fx(upper, n)

\* line 321: the replacement is skipped when this holds
OutsideBounds(new_price, lower, upper, n) ==
    new_price < Fx(lower, n) \/ new_price > Fx(upper, n)

(***************************************************************************)
(* The gateway may fail any call; the model bounds how often               *)
(***************************************************************************)
MayFail == nfailures < MaxFailures
Outcome(ok) == nfailures' = IF ok THEN nfailures ELSE nfailures + 1

\* EnterShutdown cancelling the orders counted as filled as well
EnterShutdownFilledToo(d) ==
    /\ cancelled_count' = 0
    /\ cancel_keys' = Keys(d) \o [k \in 1 .. Len(fill_log') |->
                                    fill_log'[k].order.order_id]
    /\ i' = 0
    /\ IF Len(cancel_keys') = 0
       THEN /\ pc' = "done"
            /\ result' = Summary(cycle_count', total_buy_orders_placed',
                                 total_sell_orders_placed', total_buy_fills',
                                 total_sell_fills', 0)
       ELSE /\ pc' = "cancel"
            /\ result' = result

\* EnterShutdown going through the tracker's keys twice
EnterShutdownTwice(d) ==
    /\ cancelled_count' = 0
    /\ cancel_keys' = Keys(d) \o Keys(d)
    /\ i' = 0
    /\ IF Len(d) = 0
       THEN /\ pc' = "done"
            /\ result' = Summary(cycle_count', total_buy_orders_placed',
                                 total_sell_orders_placed', total_buy_fills',
                                 total_sell_fills', 0)
       ELSE /\ pc' = "cancel"
            /\ result' = result

\* lines 387-400 when entered with tracker d: the keys to cancel are fixed
\* on entry; with nothing to cancel the summary is returned at once
EnterShutdown(d) ==
    /\ cancelled_count' = 0
    /\ cancel_keys' = Keys(d)
    /\ i' = 0
    /\ IF Len(d) = 0
       THEN /\ pc' = "done"
            /\ result' = Summary(cycle_count', total_buy_orders_placed',
                                 total_sell_orders_placed', total_buy_fills',
                                 total_sell_fills', 0)
       ELSE /\ pc' = "cancel"
            /\ result' = result

(***************************************************************************)
(* start_grid_trading                                                      *)
(***************************************************************************)
\* HasNext with the last iteration lost
HasNextShort(k, n) == k + 2 < n

\* for i in range(n): is there an iteration after iteration k
HasNext(k, n) == k + 1 < n

\* NoOrdersPlaced with the check left out
NoOrdersPlacedNever(d) == FALSE

\* line 249: nothing was placed
NoOrdersPlaced(d) == Len(d) = 0

\* lines 62-121: reset the stop flag, then validate
Start ==
    /\ pc = "idle"
    /\ grid_running' = TRUE
    /\ stop_requested' = FALSE
    /\ IF ParamsValid(symbol, quantity_per_grid, lower_bound, upper_bound,
                      num_grids, monitor_interval_seconds)
       THEN pc' = "place_buy" /\ result' = result
       ELSE pc' = "done" /\ result' = ReturnNone
    /\ UNCHANGED <<args, i, grid_orders, counters, cycle_count,
                   open_order_ids, filled_order_ids, cancel_keys,
                   cancelled_count, exchange_open, next_order_id, calls,
                   fill_log, sleeps, snap, interrupted,
                   nfills, nfailures>>
    /\ UNCHANGED <<twap_vars, oco_vars>>

\* lines 160-198: one iteration of the BUY loop
PlaceBuy(ok) ==
    /\ pc = "place_buy"
    /\ ok \/ MayFail
    /\ LET price == BuyPrice(lower_bound, upper_bound, num_grids, i)
           id == IF ok THEN next_order_id ELSE NoId
       IN  /\ calls' = Append(calls, CreateCall("BUY", price,
                                 quantity_per_grid, i, ok, id, NoId))
           /\ IF ok
              THEN /\ grid_orders' = DictSet(grid_orders,
                          TrackedOrder(id, "BUY", price, i,
                                       quantity_per_grid))
                   /\ total_buy_orders_placed' = total_buy_orders_placed + 1
                   /\ exchange_open' = exchange_open \cup {id}
                   /\ next_order_id' = next_order_id + 1
              ELSE UNCHANGED <<grid_orders, total_buy_orders_placed,
                               exchange_open, next_order_id>>
    /\ Outcome(ok)
    /\ IF HasNext(i, num_grids)
       THEN i' = i + 1 /\ pc' = "place_buy"
       ELSE i' = 0 /\ pc' = "place_sell"
    /\ UNCHANGED <<args, grid_running, total_sell_orders_placed,
                   total_buy_fills, total_sell_fills, cycle_count,
                   open_order_ids, filled_order_ids, cancel_keys,
                   cancelled_count, result, fill_log, sleeps, snap,
                   stop_requested, interrupted, nfills>>
    /\ UNCHANGED <<twap_vars, oco_vars>>

\* lines 202-251: one iteration of the SELL loop; after the last one the
\* engine gives up if the tracker is empty
PlaceSell(ok) ==
    /\ pc = "place_sell"
    /\ ok \/ MayFail
    /\ LET price == SellPrice(lower_bound, upper_bound, num_grids, i)
           grid_level == num_grids + i
           id == IF ok THEN next_order_id ELSE NoId
       IN  /\ calls' = Append(calls, CreateCall("SELL", price,
                                 quantity_per_grid, grid_level, ok, id,
                                 NoId))
           /\ IF ok
              THEN /\ grid_orders' = DictSet(grid_orders,
                          TrackedOrder(id, "SELL", price, grid_level,
                                       quantity_per_grid))
                   /\ total_sell_orders_placed' =
                          total_sell_orders_placed + 1
                   /\ exchange_open' = exchange_open \cup {id}
                   /\ next_order_id' = next_order_id + 1
              ELSE UNCHANGED <<grid_orders, total_sell_orders_placed,
                               exchange_open, next_order_id>>
    /\ Outcome(ok)
    /\ IF HasNext(i, num_grids)
       THEN /\ i' = i + 1
            /\ pc' = "place_sell"
            /\ result' = result
       ELSE /\ i' = 0
            /\ IF NoOrdersPlaced(grid_orders')
               THEN pc' = "done" /\ result' = ReturnNone
               ELSE pc' = "loop" /\ result' = result
    /\ UNCHANGED <<args, grid_running, total_buy_orders_placed,
                   total_buy_fills, total_sell_fills, cycle_count,
                   open_order_ids, filled_order_ids, cancel_keys,
                   cancelled_count, fill_log, sleeps, snap, stop_requested,
                   interrupted, nfills>>
    /\ UNCHANGED <<twap_vars, oco_vars>>

\* BeginCycle counting the cycle once its fetch has succeeded
BeginCycleCountsFetched(ok) ==
    /\ pc = "loop"
    /\ grid_running
    /\ cycle_count < MaxCycles
    /\ ok \/ MayFail
    /\ cycle_count' = IF ok THEN cycle_count + 1 ELSE cycle_count
    /\ calls' = Append(calls, FetchCall(ok, cycle_count + 1))
    /\ Outcome(ok)
    /\ IF ok
       THEN /\ open_order_ids' = exchange_open
            /\ filled_order_ids' = FilledOrderIds(grid_orders, exchange_open)
            /\ pc' = IF Len(filled_order_ids') > 0 THEN "replace"
                     ELSE "sleepcheck"
       ELSE /\ UNCHANGED <<open_order_ids, filled_order_ids>>
            /\ pc' = "sleepcheck"
    /\ snap' = [cycle |-> cycle_count + 1, ok |-> ok,
                tracked |-> grid_orders, open |-> exchange_open,
                buy_fills |-> total_buy_fills,
                sell_fills |-> total_sell_fills]
    /\ UNCHANGED <<args, grid_running, i, grid_orders, counters, cancel_keys,
                   cancelled_count, result, exchange_open, next_order_id,
                   fill_log, sleeps, stop_requested, interrupted, nfills>>
    /\ UNCHANGED <<twap_vars, oco_vars>>

\* BeginCycle taking a failed fetch for an empty list of open orders
BeginCycleFailedSeesNone(ok) ==
    /\ pc = "loop"
    /\ grid_running
    /\ cycle_count < MaxCycles
    /\ ok \/ MayFail
    /\ cycle_count' = cycle_count + 1
    /\ calls' = Append(calls, FetchCall(ok, cycle_count + 1))
    /\ Outcome(ok)
    /\ IF ok
       THEN /\ open_order_ids' = exchange_open
            /\ filled_order_ids' = FilledOrderIds(grid_orders, exchange_open)
            /\ pc' = IF Len(filled_order_ids') > 0 THEN "replace"
                     ELSE "sleepcheck"
       ELSE /\ open_order_ids' = {}
            /\ filled_order_ids' = FilledOrderIds(grid_orders, {})
            /\ pc' = IF Len(filled_order_ids') > 0 THEN "replace"
                     ELSE "sleepcheck"
    /\ snap' = [cycle |-> cycle_count + 1, ok |-> ok,
                tracked |-> grid_orders, open |-> exchange_open,
                buy_fills |-> total_buy_fills,
                sell_fills |-> total_sell_fills]
    /\ UNCHANGED <<args, grid_running, i, grid_orders, counters, cancel_keys,
                   cancelled_count, result, exchange_open, next_order_id,
                   fill_log, sleeps, stop_requested, interrupted, nfills>>
    /\ UNCHANGED <<twap_vars, oco_vars>>

\* lines 262-277 and 370-373: the loop test passes, the cycle is counted and
\* the open orders are fetched
BeginCycle(ok) ==
    /\ pc = "loop"
    /\ grid_running
    /\ cycle_count < MaxCycles
    /\ ok \/ MayFail
    /\ cycle_count' = cycle_count + 1
    /\ calls' = Append(calls, FetchCall(ok, cycle_count + 1))
    /\ Outcome(ok)
    /\ IF ok
       THEN /\ open_order_ids' = exchange_open
            /\ filled_order_ids' = FilledOrderIds(grid_orders, exchange_open)
            /\ pc' = IF Len(filled_order_ids') > 0 THEN "replace"
                     ELSE "sleepcheck"
       ELSE /\ UNCHANGED <<open_order_ids, filled_order_ids>>
            /\ pc' = "sleepcheck"
    /\ snap' = [cycle |-> cycle_count + 1, ok |-> ok,
                tracked |-> grid_orders, open |-> exchange_open,
                buy_fills |-> total_buy_fills,
                sell_fills |-> total_sell_fills]
    /\ UNCHANGED <<args, grid_running, i, grid_orders, counters, cancel_keys,
                   cancelled_count, result, exchange_open, next_order_id,
                   fill_log, sleeps, stop_requested, interrupted, nfills>>
    /\ UNCHANGED <<twap_vars, oco_vars>>

\* Replace turning the filled entry into its mirror, under the old id
ReplaceInPlace(ok) ==
    /\ pc = "replace"
    /\ LET order_id == Head(filled_order_ids)
           order_info == Lookup(grid_orders, order_id)
           side == order_info.side
           price == order_info.price
           grid_level == order_info.grid_level
           quantity == order_info.quantity
           new_side == NewSide(side)
           new_price == NewPrice(side, price, grid_step, num_grids)
           skip == OutsideBounds(new_price, lower_bound, upper_bound,
                                 num_grids)
           placed == ~skip /\ ok
           new_order_id == IF placed THEN next_order_id ELSE NoId
       IN  /\ skip => ok
           /\ ok \/ MayFail
           /\ total_buy_fills' = total_buy_fills
                                    + (IF side = "BUY" THEN 1 ELSE 0)
           /\ total_sell_fills' = total_sell_fills
                                    + (IF side = "BUY" THEN 0 ELSE 1)
           /\ grid_orders' =
                 IF placed
                 THEN DictSet(grid_orders,
                              TrackedOrder(order_id, new_side, new_price,
                                           grid_level, quantity))
                 ELSE DictDel(grid_orders, order_id)
           /\ total_buy_orders_placed' = total_buy_orders_placed
                 + (IF placed /\ new_side = "BUY" THEN 1 ELSE 0)
           /\ total_sell_orders_placed' = total_sell_orders_placed
                 + (IF placed /\ new_side = "SELL" THEN 1 ELSE 0)
           /\ calls' = IF skip THEN calls
                       ELSE Append(calls, CreateCall(new_side, new_price,
                               quantity, grid_level, ok, new_order_id,
                               order_id))
           /\ exchange_open' = IF placed
                               THEN exchange_open \cup {new_order_id}
                               ELSE exchange_open
           /\ next_order_id' = IF placed THEN next_order_id + 1
                               ELSE next_order_id
           /\ fill_log' = Append(fill_log,
                 [order |-> order_info, cycle |-> cycle_count,
                  mirror |-> IF skip THEN "skipped"
                             ELSE IF ok THEN "placed" ELSE "rejected",
                  new_order_id |-> new_order_id])
    /\ Outcome(ok)
    /\ filled_order_ids' = Tail(filled_order_ids)
    /\ pc' = IF Len(filled_order_ids) > 1 THEN "replace" ELSE "sleepcheck"
    /\ UNCHANGED <<args, grid_running, i, cycle_count, open_order_ids,
                   cancel_keys, cancelled_count, result, sleeps, snap,
                   stop_requested, interrupted, nfills>>
    /\ UNCHANGED <<twap_vars, oco_vars>>

\* Replace counting the rejected replacement as placed
ReplaceCountsRejected(ok) ==
    /\ pc = "replace"
    /\ LET order_id == Head(filled_order_ids)
           order_info == Lookup(grid_orders, order_id)
           side == order_info.side
           price == order_info.price
           grid_level == order_info.grid_level
           quantity == order_info.quantity
           new_side == NewSide(side)
           new_price == NewPrice(side, price, grid_step, num_grids)
           skip == OutsideBounds(new_price, lower_bound, upper_bound,
                                 num_grids)
           placed == ~skip /\ ok
           new_order_id == IF placed THEN next_order_id ELSE NoId
       IN  /\ skip => ok
           /\ ok \/ MayFail
           /\ total_buy_fills' = total_buy_fills
                                    + (IF side = "BUY" THEN 1 ELSE 0)
           /\ total_sell_fills' = total_sell_fills
                                    + (IF side = "BUY" THEN 0 ELSE 1)
           /\ grid_orders' =
                 IF placed
                 THEN DictSet(DictDel(grid_orders, order_id),
                              TrackedOrder(new_order_id, new_side, new_price,
                                           grid_level, quantity))
                 ELSE DictDel(grid_orders, order_id)
           /\ total_buy_orders_placed' = total_buy_orders_placed
                 + (IF ~skip /\ new_side = "BUY" THEN 1 ELSE 0)
           /\ total_sell_orders_placed' = total_sell_orders_placed
                 + (IF ~skip /\ new_side = "SELL" THEN 1 ELSE 0)
           /\ calls' = IF skip THEN calls
                       ELSE Append(calls, CreateCall(new_side, new_price,
                               quantity, grid_level, ok, new_order_id,
                               order_id))
           /\ exchange_open' = IF placed
                               THEN exchange_open \cup {new_order_id}
                               ELSE exchange_open
           /\ next_order_id' = IF placed THEN next_order_id + 1
                               ELSE next_order_id
           /\ fill_log' = Append(fill_log,
                 [order |-> order_info, cycle |-> cycle_count,
                  mirror |-> IF skip THEN "skipped"
                             ELSE IF ok THEN "placed" ELSE "rejected",
                  new_order_id |-> new_order_id])
    /\ Outcome(ok)
    /\ filled_order_ids' = Tail(filled_order_ids)
    /\ pc' = IF Len(filled_order_ids) > 1 THEN "replace" ELSE "sleepcheck"
    /\ UNCHANGED <<args, grid_running, i, cycle_count, open_order_ids,
                   cancel_keys, cancelled_count, result, sleeps, snap,
                   stop_requested, interrupted, nfills>>
    /\ UNCHANGED <<twap_vars, oco_vars>>

\* Replace sending a cancel request for the filled order before mirroring it
ReplaceCancelsFirst(ok) ==
    /\ pc = "replace"
    /\ LET order_id == Head(filled_order_ids)
           order_info == Lookup(grid_orders, order_id)
           side == order_info.side
           price == order_info.price
           grid_level == order_info.grid_level
           quantity == order_info.quantity
           new_side == NewSide(side)
           new_price == NewPrice(side, price, grid_step, num_grids)
           skip == OutsideBounds(new_price, lower_bound, upper_bound,
                                 num_grids)
           placed == ~skip /\ ok
           new_order_id == IF placed THEN next_order_id ELSE NoId
       IN  /\ skip => ok
           /\ ok \/ MayFail
           /\ total_buy_fills' = total_buy_fills
                                    + (IF side = "BUY" THEN 1 ELSE 0)
           /\ total_sell_fills' = total_sell_fills
                                    + (IF side = "BUY" THEN 0 ELSE 1)
           /\ grid_orders' =
                 IF placed
                 THEN DictSet(DictDel(grid_orders, order_id),
                              TrackedOrder(new_order_id, new_side, new_price,
                                           grid_level, quantity))
                 ELSE DictDel(grid_orders, order_id)
           /\ total_buy_orders_placed' = total_buy_orders_placed
                 + (IF placed /\ new_side = "BUY" THEN 1 ELSE 0)
           /\ total_sell_orders_placed' = total_sell_orders_placed
                 + (IF placed /\ new_side = "SELL" THEN 1 ELSE 0)
           /\ calls' = IF skip THEN Append(calls, CancelCall(order_id, FALSE))
                       ELSE Append(Append(calls,
                                          CancelCall(order_id, FALSE)),
                                   CreateCall(new_side, new_price,
                                      quantity, grid_level, ok, new_order_id,
                                      order_id))
           /\ exchange_open' = IF placed
                               THEN exchange_open \cup {new_order_id}
                               ELSE exchange_open
           /\ next_order_id' = IF placed THEN next_order_id + 1
                               ELSE next_order_id
           /\ fill_log' = Append(fill_log,
                 [order |-> order_info, cycle |-> cycle_count,
                  mirror |-> IF skip THEN "skipped"
                             ELSE IF ok THEN "placed" ELSE "rejected",
                  new_order_id |-> new_order_id])
    /\ Outcome(ok)
    /\ filled_order_ids' = Tail(filled_order_ids)
    /\ pc' = IF Len(filled_order_ids) > 1 THEN "replace" ELSE "sleepcheck"
    /\ UNCHANGED <<args, grid_running, i, cycle_count, open_order_ids,
                   cancel_keys, cancelled_count, result, sleeps, snap,
                   stop_requested, interrupted, nfills>>
    /\ UNCHANGED <<twap_vars, oco_vars>>

\* Replace testing the replacement against the open set fetched before it
\* was placed, in the same cycle
ReplaceRechecksNew(ok) ==
    /\ pc = "replace"
    /\ LET order_id == Head(filled_order_ids)
           order_info == Lookup(grid_orders, order_id)
           side == order_info.side
           price == order_info.price
           grid_level == order_info.grid_level
           quantity == order_info.quantity
           new_side == NewSide(side)
           new_price == NewPrice(side, price, grid_step, num_grids)
           skip == OutsideBounds(new_price, lower_bound, upper_bound,
                                 num_grids)
           placed == ~skip /\ ok
           new_order_id == IF placed THEN next_order_id ELSE NoId
       IN  /\ skip => ok
           /\ ok \/ MayFail
           /\ total_buy_fills' = total_buy_fills
                                    + (IF side = "BUY" THEN 1 ELSE 0)
           /\ total_sell_fills' = total_sell_fills
                                    + (IF side = "BUY" THEN 0 ELSE 1)
           /\ grid_orders' =
                 IF placed
                 THEN DictSet(DictDel(grid_orders, order_id),
                              TrackedOrder(new_order_id, new_side, new_price,
                                           grid_level, quantity))
                 ELSE DictDel(grid_orders, order_id)
           /\ total_buy_orders_placed' = total_buy_orders_placed
                 + (IF placed /\ new_side = "BUY" THEN 1 ELSE 0)
           /\ total_sell_orders_placed' = total_sell_orders_placed
                 + (IF placed /\ new_side = "SELL" THEN 1 ELSE 0)
           /\ calls' = IF skip THEN calls
                       ELSE Append(calls, CreateCall(new_side, new_price,
                               quantity, grid_level, ok, new_order_id,
                               order_id))
           /\ exchange_open' = IF placed
                               THEN exchange_open \cup {new_order_id}
                               ELSE exchange_open
           /\ next_order_id' = IF placed THEN next_order_id + 1
                               ELSE next_order_id
           /\ fill_log' = Append(fill_log,
                 [order |-> order_info, cycle |-> cycle_count,
                  mirror |-> IF skip THEN "skipped"
                             ELSE IF ok THEN "placed" ELSE "rejected",
                  new_order_id |-> new_order_id])
    /\ Outcome(ok)
    /\ filled_order_ids' =
          Tail(filled_order_ids)
             \o FilledOrderIds(SelectSeq(grid_orders', LAMBDA e :
                                   e.order_id \notin KeySet(grid_orders)),
                               open_order_ids)
    /\ pc' = IF Len(filled_order_ids') > 0 THEN "replace" ELSE "sleepcheck"
    /\ UNCHANGED <<args, grid_running, i, cycle_count, open_order_ids,
                   cancel_keys, cancelled_count, result, sleeps, snap,
                   stop_requested, interrupted, nfills>>
    /\ UNCHANGED <<twap_vars, oco_vars>>

\* lines 283-359: one filled order is counted, dropped and mirrored
Replace(ok) ==
    /\ pc = "replace"
    /\ LET order_id == Head(filled_order_ids)
           order_info == Lookup(grid_orders, order_id)
           side == order_info.side
           price == order_info.price
           grid_level == order_info.grid_level
           quantity == order_info.quantity
           new_side == NewSide(side)
           new_price == NewPrice(side, price, grid_step, num_grids)
           skip == OutsideBounds(new_price, lower_bound, upper_bound,
                                 num_grids)
           placed == ~skip /\ ok
           new_order_id == IF placed THEN next_order_id ELSE NoId
       IN  /\ skip => ok
           /\ ok \/ MayFail
           /\ total_buy_fills' = total_buy_fills
                                    + (IF side = "BUY" THEN 1 ELSE 0)
           /\ total_sell_fills' = total_sell_fills
                                    + (IF side = "BUY" THEN 0 ELSE 1)
           /\ grid_orders' =
                 IF placed
                 THEN DictSet(DictDel(grid_orders, order_id),
                              TrackedOrder(new_order_id, new_side, new_price,
                                           grid_level, quantity))
                 ELSE DictDel(grid_orders, order_id)
           /\ total_buy_orders_placed' = total_buy_orders_placed
                 + (IF placed /\ new_side = "BUY" THEN 1 ELSE 0)
           /\ total_sell_orders_placed' = total_sell_orders_placed
                 + (IF placed /\ new_side = "SELL" THEN 1 ELSE 0)
           /\ calls' = IF skip THEN calls
                       ELSE Append(calls, CreateCall(new_side, new_price,
                               quantity, grid_level, ok, new_order_id,
                               order_id))
           /\ exchange_open' = IF placed
                               THEN exchange_open \cup {new_order_id}
                               ELSE exchange_open
           /\ next_order_id' = IF placed THEN next_order_id + 1
                               ELSE next_order_id
           /\ fill_log' = Append(fill_log,
                 [order |-> order_info, cycle |-> cycle_count,
                  mirror |-> IF skip THEN "skipped"
                             ELSE IF ok THEN "placed" ELSE "rejected",
                  new_order_id |-> new_order_id])
    /\ Outcome(ok)
    /\ filled_order_ids' = Tail(filled_order_ids)
    /\ pc' = IF Len(filled_order_ids) > 1 THEN "replace" ELSE "sleepcheck"
    /\ UNCHANGED <<args, grid_running, i, cycle_count, open_order_ids,
                   cancel_keys, cancelled_count, result, sleeps, snap,
                   stop_requested, interrupted, nfills>>
    /\ UNCHANGED <<twap_vars, oco_vars>>

\* SleepCheck sleeping whatever the flag says
SleepCheckAlways ==
    /\ pc = "sleepcheck"
    /\ pc' = "sleeping" /\ sleeps' = sleeps + 1
    /\ UNCHANGED <<args, grid_running, i, grid_orders, counters, cycle_count,
                   open_order_ids, filled_order_ids, cancel_keys,
                   cancelled_count, result, exchange_open, next_order_id,
                   calls, fill_log, snap, stop_requested, interrupted,
                   nfills, nfailures>>
    /\ UNCHANGED <<twap_vars, oco_vars>>

\* lines 376-378: sleep only while the flag is still set
SleepCheck ==
    /\ pc = "sleepcheck"
    /\ IF grid_running
       THEN pc' = "sleeping" /\ sleeps' = sleeps + 1
       ELSE pc' = "loop" /\ sleeps' = sleeps
    /\ UNCHANGED <<args, grid_running, i, grid_orders, counters, cycle_count,
                   open_order_ids, filled_order_ids, cancel_keys,
                   cancelled_count, result, exchange_open, next_order_id,
                   calls, fill_log, snap, stop_requested, interrupted,
                   nfills, nfailures>>
    /\ UNCHANGED <<twap_vars, oco_vars>>

\* line 378: time.sleep returns
Wake ==
    /\ pc = "sleeping"
    /\ pc' = "loop"
    /\ UNCHANGED <<args, grid_running, i, grid_orders, counters, cycle_count,
                   open_order_ids, filled_order_ids, cancel_keys,
                   cancelled_count, result, exchange_open, next_order_id,
                   calls, fill_log, sleeps, snap, stop_requested,
                   interrupted, nfills, nfailures>>
    /\ UNCHANGED <<twap_vars, oco_vars>>

\* ExitLoop also taken when no order is left
ExitLoopWhenEmpty ==
    /\ pc = "loop"
    /\ ~grid_running \/ Len(grid_orders) = 0
    /\ UNCHANGED <<args, grid_running, grid_orders, counters, cycle_count,
                   open_order_ids, filled_order_ids, exchange_open,
                   next_order_id, calls, fill_log, sleeps, snap,
                   stop_requested, interrupted, nfills, nfailures>>
    /\ EnterShutdown(grid_orders)
    /\ UNCHANGED <<twap_vars, oco_vars>>

\* line 262: the loop test fails, the engine goes on to the cleanup
ExitLoop ==
    /\ pc = "loop"
    /\ ~grid_running
    /\ UNCHANGED <<args, grid_running, grid_orders, counters, cycle_count,
                   open_order_ids, filled_order_ids, exchange_open,
                   next_order_id, calls, fill_log, sleeps, snap,
                   stop_requested, interrupted, nfills, nfailures>>
    /\ EnterShutdown(grid_orders)
    /\ UNCHANGED <<twap_vars, oco_vars>>

\* CancelOrder counting the failed cancellations too
CancelOrderCountsAll(ok) ==
    /\ pc = "cancel"
    /\ LET order_id == cancel_keys[i + 1]
       IN  /\ ok => order_id \in exchange_open
           /\ ok \/ order_id \notin exchange_open \/ MayFail
           /\ nfailures' = IF ok \/ order_id \notin exchange_open
                           THEN nfailures ELSE nfailures + 1
           /\ calls' = Append(calls, CancelCall(order_id, ok))
           /\ cancelled_count' = cancelled_count + 1
           /\ exchange_open' = IF ok THEN exchange_open \ {order_id}
                               ELSE exchange_open
    /\ i' = i + 1
    /\ IF i + 1 < Len(cancel_keys)
       THEN pc' = "cancel" /\ result' = result
       ELSE /\ pc' = "done"
            /\ result' = Summary(cycle_count, total_buy_orders_placed,
                                 total_sell_orders_placed, total_buy_fills,
                                 total_sell_fills, cancelled_count')
    /\ UNCHANGED <<args, grid_running, grid_orders, counters, cycle_count,
                   open_order_ids, filled_order_ids, cancel_keys,
                   next_order_id, fill_log, sleeps, snap, stop_requested,
                   interrupted, nfills>>
    /\ UNCHANGED <<twap_vars, oco_vars>>

\* lines 394-425: one iteration of the cancel loop; the exchange refuses to
\* cancel an order that is no longer open, and any call may fail
CancelOrder(ok) ==
    /\ pc = "cancel"
    /\ LET order_id == cancel_keys[i + 1]
       IN  /\ ok => order_id \in exchange_open
           /\ ok \/ order_id \notin exchange_open \/ MayFail
           /\ nfailures' = IF ok \/ order_id \notin exchange_open
                           THEN nfailures ELSE nfailures + 1
           /\ calls' = Append(calls, CancelCall(order_id, ok))
           /\ cancelled_count' = cancelled_count + (IF ok THEN 1 ELSE 0)
           /\ exchange_open' = IF ok THEN exchange_open \ {order_id}
                               ELSE exchange_open
    /\ i' = i + 1
    /\ IF i + 1 < Len(cancel_keys)
       THEN pc' = "cancel" /\ result' = result
       ELSE /\ pc' = "done"
            /\ result' = Summary(cycle_count, total_buy_orders_placed,
                                 total_sell_orders_placed, total_buy_fills,
                                 total_sell_fills, cancelled_count')
    /\ UNCHANGED <<args, grid_running, grid_orders, counters, cycle_count,
                   open_order_ids, filled_order_ids, cancel_keys,
                   next_order_id, fill_log, sleeps, snap, stop_requested,
                   interrupted, nfills>>
    /\ UNCHANGED <<twap_vars, oco_vars>>

(***************************************************************************)
(* The environment: the operator, the market, Ctrl+C                       *)
(***************************************************************************)
\* lines 29-33: stop_grid(); once the loop is left nothing reads the flag
StopGrid ==
    /\ pc \notin {"cancel", "done"}
    /\ grid_running' = FALSE
    /\ stop_requested' = TRUE
    /\ UNCHANGED <<args, pc, i, grid_orders, counters, cycle_count,
                   open_order_ids, filled_order_ids, cancel_keys,
                   cancelled_count, result, exchange_open, next_order_id,
                   calls, fill_log, sleeps, snap, interrupted, nfills,
                   nfailures>>
    /\ UNCHANGED <<twap_vars, oco_vars>>

\* an order of the engine stops being open at the exchange (it is filled, or
\* somebody else cancels it); only the fetch and the cancel calls read the
\* exchange, so it is enough to let this happen at the loop test, which
\* precedes both
Fill(id) ==
    /\ pc = "loop"
    /\ nfills < MaxFills
    /\ id \in exchange_open \ {ForeignOrderId}
    /\ exchange_open' = exchange_open \ {id}
    /\ nfills' = nfills + 1
    /\ UNCHANGED <<args, grid_running, pc, i, grid_orders, counters,
                   cycle_count, open_order_ids, filled_order_ids,
                   cancel_keys, cancelled_count, result, next_order_id,
                   calls, fill_log, sleeps, snap, stop_requested,
                   interrupted, nfailures>>
    /\ UNCHANGED <<twap_vars, oco_vars>>

\* KeyboardInterrupt while the initial orders are placed (lines 160-240):
\* except Exception does not catch it, it leaves start_grid_trading.  With
\* sent, the order of the call in flight had reached the exchange.
InterruptPlacement(sent) ==
    /\ pc \in {"place_buy", "place_sell"}
    /\ interrupted' = "placement"
    /\ pc' = "done"
    /\ result' = Raised
    /\ IF sent
       THEN /\ calls' = Append(calls,
                  IF pc = "place_buy"
                  THEN CreateCall("BUY", BuyPrice(lower_bound, upper_bound,
                                                  num_grids, i),
                                  quantity_per_grid, i, TRUE, next_order_id,
                                  NoId)
                  ELSE CreateCall("SELL", SellPrice(lower_bound, upper_bound,
                                                    num_grids, i),
                                  quantity_per_grid, num_grids + i, TRUE,
                                  next_order_id, NoId))
            /\ exchange_open' = exchange_open \cup {next_order_id}
            /\ next_order_id' = next_order_id + 1
       ELSE UNCHANGED <<calls, exchange_open, next_order_id>>
    /\ UNCHANGED <<args, grid_running, i, grid_orders, counters, cycle_count,
                   open_order_ids, filled_order_ids, cancel_keys,
                   cancelled_count, fill_log, sleeps, snap, stop_requested,
                   nfills, nfailures>>
    /\ UNCHANGED <<twap_vars, oco_vars>>

\* KeyboardInterrupt inside the monitoring loop, at the loop test or during
\* the sleep (lines 261-382): caught, the engine cleans up
InterruptLoop ==
    /\ pc \in {"loop", "sleeping"}
    /\ interrupted' = "loop"
    /\ grid_running' = FALSE
    /\ UNCHANGED <<args, grid_orders, counters, cycle_count, open_order_ids,
                   filled_order_ids, exchange_open, next_order_id, calls,
                   fill_log, sleeps, snap, stop_requested, nfills,
                   nfailures>>
    /\ EnterShutdown(grid_orders)
    /\ UNCHANGED <<twap_vars, oco_vars>>

\* KeyboardInterrupt during the create call of a replacement (line 337):
\* the filled order is already counted and dropped (lines 296-302)
InterruptReplace(sent) ==
    /\ pc = "replace"
    /\ LET order_id == Head(filled_order_ids)
           order_info == Lookup(grid_orders, order_id)
           side == order_info.side
           new_side == NewSide(side)
           new_price == NewPrice(side, order_info.price, grid_step,
                                 num_grids)
       IN  /\ ~OutsideBounds(new_price, lower_bound, upper_bound, num_grids)
           /\ total_buy_fills' = total_buy_fills
                                    + (IF side = "BUY" THEN 1 ELSE 0)
           /\ total_sell_fills' = total_sell_fills
                                    + (IF side = "BUY" THEN 0 ELSE 1)
           /\ grid_orders' = DictDel(grid_orders, order_id)
           /\ calls' = IF sent
                       THEN Append(calls, CreateCall(new_side, new_price,
                               order_info.quantity, order_info.grid_level,
                               TRUE, next_order_id, order_id))
                       ELSE calls
           /\ exchange_open' = IF sent
                               THEN exchange_open \cup {next_order_id}
                               ELSE exchange_open
           /\ next_order_id' = IF sent THEN next_order_id + 1
                               ELSE next_order_id
           /\ fill_log' = Append(fill_log,
                 [order |-> order_info, cycle |-> cycle_count,
                  mirror |-> "interrupted", new_order_id |-> NoId])
    /\ interrupted' = "replace"
    /\ grid_running' = FALSE
    /\ UNCHANGED <<args, total_buy_orders_placed, total_sell_orders_placed,
                   cycle_count, open_order_ids, filled_order_ids, sleeps,
                   snap, stop_requested, nfills, nfailures>>
    /\ EnterShutdown(grid_orders')
    /\ UNCHANGED <<twap_vars, oco_vars>>

\* KeyboardInterrupt during the cancel loop (lines 394-400): except Exception
\* does not catch it, no summary is returned
InterruptCancel ==
    /\ pc = "cancel"
    /\ interrupted' = "cancel"
    /\ pc' = "done"
    /\ result' = Raised
    /\ UNCHANGED <<args, grid_running, i, grid_orders, counters, cycle_count,
                   open_order_ids, filled_order_ids, cancel_keys,
                   cancelled_count, exchange_open, next_order_id, calls,
                   fill_log, sleeps, snap, stop_requested, nfills,
                   nfailures>>
    /\ UNCHANGED <<twap_vars, oco_vars>>

Next ==
    \/ Start
    \/ \E ok \in BOOLEAN : PlaceBuy(ok)
    \/ \E ok \in BOOLEAN : PlaceSell(ok)
    \/ \E ok \in BOOLEAN : BeginCycle(ok)
    \/ \E ok \in BOOLEAN : Replace(ok)
    \/ SleepCheck
    \/ Wake
    \/ ExitLoop
    \/ \E ok \in BOOLEAN : CancelOrder(ok)
    \/ StopGrid
    \/ \E id \in exchange_open : Fill(id)
    \/ \E sent \in BOOLEAN : InterruptPlacement(sent)
    \/ InterruptLoop
    \/ \E sent \in BOOLEAN : InterruptReplace(sent)
    \/ InterruptCancel

Spec == Init /\ [][Next]_vars

\* the engine up to the end of the initial placement (lines 62-251)
NextLadder ==
    \/ Start
    \/ \E ok \in BOOLEAN : PlaceBuy(ok)
    \/ \E ok \in BOOLEAN : PlaceSell(ok)
    \/ \E sent \in BOOLEAN : InterruptPlacement(sent)

SpecLadder == InitLadder /\ [][NextLadder]_vars

(***************************************************************************)
(* Two overlapping sessions.  grid_running is a global of the module (line *)
(* 26): a second call of start_grid_trading, made from another thread      *)
(* while this session runs, writes the same flag.  The other session has   *)
(* its own locals and its own orders (foreign ones to this session); what  *)
(* it shares with this session is the flag, so it is present here by its   *)
(* write of line 63.                                                       *)
(***************************************************************************)
\* lines 62-63, executed by another call while this session is running
OtherSessionStarts ==
    /\ pc \notin {"idle", "done"}
    /\ grid_running' = TRUE
    /\ UNCHANGED <<args, pc, i, grid_orders, counters, cycle_count,
                   open_order_ids, filled_order_ids, cancel_keys,
                   cancelled_count, result, exchange_open, next_order_id,
                   calls, fill_log, sleeps, snap, stop_requested,
                   interrupted, nfills, nfailures>>
    /\ UNCHANGED <<twap_vars, oco_vars>>

\* one valid call, during which other calls may begin
InitOverlap ==
    /\ InitWith({BTCUSDT}, {1}, {<<4, 20>>}, {1}, {60})
    /\ TwapAtRest
    /\ OcoAtRest

NextOverlap ==
    \/ Next
    \/ OtherSessionStarts

SpecOverlap == InitOverlap /\ [][NextOverlap]_vars

(***************************************************************************)
(* execute_twap_order                                                      *)
(***************************************************************************)
\* ChunkQuantity without the division
ChunkQuantityWhole(total, n) == Frac(total, 1)

\* line 101: chunk_quantity = total_quantity / num_orders
ChunkQuantity(total, n) == Frac(total, n)

\* SleepsAfter also after the last chunk
SleepsAfterEvery(chunk_number, n) == chunk_number <= n

\* line 193: a sleep follows every chunk but the last
SleepsAfter(chunk_number, n) == chunk_number < n

\* RecordFailure losing the chunk
RecordFailureDropped(failed, chunk_number, code) == failed

\* lines 169-173 and 183-187: failed_orders.append({...})
RecordFailure(failed, chunk_number, code) ==
    Append(failed, FailedOrder(chunk_number, code))

\* order id the exchange gives to the next order it accepts
TwapNextOrderId ==
    1 + Cardinality({j \in 1 .. Len(twap_log) :
                        twap_log[j].op = "create" /\ twap_log[j].accepted})

\* lines 49-120: validation, chunk size, empty result lists
TwapStart ==
    /\ twap_pc = "idle"
    /\ IF TwapParamsValid(twap_symbol, twap_side, total_quantity,
                          num_orders_arg, interval_seconds_arg)
       THEN /\ twap_pc' = "chunk"
            /\ num_orders' = IntOf(num_orders_arg)
            /\ interval_seconds' = IntOf(interval_seconds_arg)
            /\ chunk_quantity' = ChunkQuantity(total_quantity, num_orders')
            /\ twap_result' = twap_result
       ELSE /\ twap_pc' = "done"
            /\ twap_result' = TwapNone
            /\ UNCHANGED <<num_orders, interval_seconds, chunk_quantity>>
    /\ UNCHANGED <<twap_args, chunk_i, executed_orders, failed_orders,
                   total_executed_qty, twap_log>>
    /\ UNCHANGED <<grid_vars, oco_vars>>

\* lines 122-234: one iteration of the chunk loop up to its sleep, or, for
\* the last chunk, up to the return of the summary; o is what the gateway
\* answers to the market order
TwapChunk(o) ==
    /\ twap_pc = "chunk"
    /\ LET chunk_number == chunk_i + 1
           id == IF o.kind = "ok" THEN TwapNextOrderId ELSE NoId
           call == TwapCreateCall(chunk_number, Upper(twap_symbol),
                                  Upper(twap_side), chunk_quantity,
                                  o.kind = "ok", id, o)
       IN  /\ IF o.kind = "ok"
              THEN /\ executed_orders' =
                         Append(executed_orders,
                                ExecutedOrder(chunk_number, id,
                                              o.executed_qty, o.avg_price))
                   /\ total_executed_qty' = total_executed_qty
                                               + o.executed_qty
                   /\ failed_orders' = failed_orders
              ELSE /\ failed_orders' = RecordFailure(failed_orders,
                                                     chunk_number,
                                                     o.error_code)
                   /\ UNCHANGED <<executed_orders, total_executed_qty>>
           /\ IF SleepsAfter(chunk_number, num_orders)
              THEN /\ twap_log' = twap_log \o
                         <<call, TwapSleep(chunk_number, interval_seconds)>>
                   /\ twap_pc' = "sleeping"
                   /\ twap_result' = twap_result
              ELSE /\ twap_log' = Append(twap_log, call)
                   /\ twap_pc' = "done"
                   /\ twap_result' =
                         TwapSummary(num_orders, total_quantity,
                                     executed_orders', failed_orders',
                                     total_executed_qty')
    /\ UNCHANGED <<twap_args, num_orders, interval_seconds, chunk_quantity,
                   chunk_i>>
    /\ UNCHANGED <<grid_vars, oco_vars>>

\* line 195: time.sleep returns, the loop goes to its next iteration
TwapWake ==
    /\ twap_pc = "sleeping"
    /\ twap_pc' = "chunk"
    /\ chunk_i' = chunk_i + 1
    /\ UNCHANGED <<twap_args, num_orders, interval_seconds, chunk_quantity,
                   executed_orders, failed_orders, total_executed_qty,
                   twap_result, twap_log>>
    /\ UNCHANGED <<grid_vars, oco_vars>>

\* KeyboardInterrupt during the create call (line 140) or the sleep (line
\* 195): nothing catches it, it leaves execute_twap_order.  With sent, the
\* order of the call in flight had reached the exchange.
TwapInterrupt(sent) ==
    /\ twap_pc \in {"chunk", "sleeping"}
    /\ sent => twap_pc = "chunk"
    /\ twap_pc' = "done"
    /\ twap_result' = TwapRaised
    /\ twap_log' =
          IF sent
          THEN Append(twap_log,
                      TwapCreateCall(chunk_i + 1, Upper(twap_symbol),
                                     Upper(twap_side), chunk_quantity, TRUE,
                                     TwapNextOrderId, NoResponse))
          ELSE twap_log
    /\ UNCHANGED <<twap_args, num_orders, interval_seconds, chunk_quantity,
                   chunk_i, executed_orders, failed_orders,
                   total_executed_qty>>
    /\ UNCHANGED <<grid_vars, oco_vars>>

NextTwap ==
    \/ TwapStart
    \/ \E o \in TwapOutcomes : TwapChunk(o)
    \/ TwapWake
    \/ \E sent \in BOOLEAN : TwapInterrupt(sent)

SpecTwap == InitTwap /\ [][NextTwap]_vars

\* execute_twap_order left to run, with no signal from the operator: the
\* function is sequential code, so a step that can be taken is taken, the
\* gateway answering every call and every sleep ending
NextTwapRun ==
    \/ TwapStart
    \/ \E o \in TwapOutcomes : TwapChunk(o)
    \/ TwapWake

SpecTwapRun == InitTwap /\ [][NextTwapRun]_vars /\ WF_vars(NextTwapRun)

(***************************************************************************)
(* place_oco_for_position                                                  *)
(***************************************************************************)
\* lines 65-104: validate
OcoStart ==
    /\ oco_pc = "idle"
    /\ IF OcoParamsValid(oco_symbol, position_side, position_quantity,
                         take_profit_price, stop_price)
       THEN oco_pc' = "take_profit" /\ oco_result' = oco_result
       ELSE oco_pc' = "done" /\ oco_result' = OcoNone
    /\ UNCHANGED <<oco_args, take_profit_response, oco_calls>>
    /\ UNCHANGED <<grid_vars, twap_vars>>

\* OcoTakeProfit going on to the stop-loss order although the take-profit
\* order was refused
OcoTakeProfitGoesOn(o) ==
    /\ oco_pc = "take_profit"
    /\ LET params == OcoParams("TAKE_PROFIT_MARKET", oco_symbol,
                               OrderSide(Upper(position_side)),
                               take_profit_price)
           response == IF o = "ok"
                       THEN OcoResponse(Len(oco_calls) + 1, params)
                       ELSE OcoNoResponse
       IN  /\ oco_calls' = Append(oco_calls, OcoCall(params, o, response))
           /\ take_profit_response' = response
           /\ oco_pc' = "stop_loss"
           /\ oco_result' = oco_result
    /\ UNCHANGED oco_args
    /\ UNCHANGED <<grid_vars, twap_vars>>

\* lines 143-151 and 171-189: the take-profit order is submitted; when the
\* call raises, the handlers return None
OcoTakeProfit(o) ==
    /\ oco_pc = "take_profit"
    /\ LET params == OcoParams("TAKE_PROFIT_MARKET", oco_symbol,
                               OrderSide(Upper(position_side)),
                               take_profit_price)
           response == IF o = "ok"
                       THEN OcoResponse(Len(oco_calls) + 1, params)
                       ELSE OcoNoResponse
       IN  /\ oco_calls' = Append(oco_calls, OcoCall(params, o, response))
           /\ IF o = "ok"
              THEN /\ take_profit_response' = response
                   /\ oco_pc' = "stop_loss"
                   /\ oco_result' = oco_result
              ELSE /\ take_profit_response' = take_profit_response
                   /\ oco_pc' = "done"
                   /\ oco_result' = OcoNone
    /\ UNCHANGED oco_args
    /\ UNCHANGED <<grid_vars, twap_vars>>

\* lines 153-189: the stop-loss order is submitted; both answers are
\* returned, or None when the call raises
OcoStopLoss(o) ==
    /\ oco_pc = "stop_loss"
    /\ LET params == OcoParams("STOP_MARKET", oco_symbol,
                               OrderSide(Upper(position_side)), stop_price)
           stop_loss_response == IF o = "ok"
                                 THEN OcoResponse(Len(oco_calls) + 1, params)
                                 ELSE OcoNoResponse
       IN  /\ oco_calls' = Append(oco_calls,
                                  OcoCall(params, o, stop_loss_response))
           /\ oco_result' = IF o = "ok"
                            THEN OcoResult(take_profit_response,
                                           stop_loss_response)
                            ELSE OcoNone
    /\ oco_pc' = "done"
    /\ UNCHANGED <<oco_args, take_profit_response>>
    /\ UNCHANGED <<grid_vars, twap_vars>>

NextOco ==
    \/ OcoStart
    \/ \E o \in OcoOutcomes : OcoTakeProfit(o)
    \/ \E o \in OcoOutcomes : OcoStopLoss(o)

SpecOco == InitOco /\ [][NextOco]_vars

TypeOK ==
    /\ pc \in {"idle", "place_buy", "place_sell", "loop", "replace",
               "sleepcheck", "sleeping", "cancel", "done"}
    /\ grid_running \in BOOLEAN
    /\ cycle_count \in 0 .. MaxCycles

(***************************************************************************)
(* Vocabulary of the properties                                            *)
(***************************************************************************)
Valid == ParamsValid(symbol, quantity_per_grid, lower_bound, upper_bound,
                     num_grids, monitor_interval_seconds)

\* the create requests of the initial ladder, in the order issued
InitialCalls ==
    SelectSeq(calls, LAMBDA c : c.op = "create" /\ c.of = NoId)

\* the initial placement ran to its end (Ctrl+C did not cut it short)
LadderDone ==
    /\ Valid
    /\ pc \notin {"idle", "place_buy", "place_sell"}
    /\ interrupted # "placement"

Abs(x) == IF x < 0 THEN -x ELSE x

\* p is x rounded to 2 decimals: the tick multiple closest to x, the even
\* one when x is halfway (x and p are numerators over num_grids)
IsRounded(x, p) ==
    LET u == TickSub * num_grids
    IN  /\ p % u = 0
        /\ \/ 2 * Abs(p - x) < u
           \/ 2 * Abs(p - x) = u /\ (p \div u) % 2 = 0

\* a price given in currency units, as a numerator over num_grids
Px(units) == Fx(units * 100 * TickSub, num_grids)

(***************************************************************************)
(* C1: for valid inputs the initial ladder issues exactly 2*num_grids      *)
(* create requests, num_grids BUY then num_grids SELL, with a positive     *)
(* step, whichever of them the gateway rejects: after k iterations k       *)
(* requests have been issued, failed ones included.                        *)
(***************************************************************************)
C1_LadderAttempts ==
    /\ (Valid /\ pc # "idle") => (num_grids > 0 /\ grid_step > 0)
    /\ pc = "place_buy" => Len(InitialCalls) = i
    /\ pc = "place_sell" => Len(InitialCalls) = num_grids + i
    /\ LadderDone =>
          /\ Len(InitialCalls) = 2 * num_grids
          /\ \A k \in 1 .. 2 * num_grids :
                InitialCalls[k].side =
                    IF k <= num_grids THEN "BUY" ELSE "SELL"

\* a ladder of at least three levels was completed although an early
\* placement was rejected and a later one accepted
C1_Witness ==
    /\ LadderDone
    /\ num_grids >= 3
    /\ \E j, k \in 1 .. Len(InitialCalls) :
          j < k /\ ~InitialCalls[j].ok /\ InitialCalls[k].ok

(***************************************************************************)
(* C2 as stated: the i-th BUY is submitted at exactly lower + i*step with  *)
(* grid level i, the i-th SELL at exactly upper - i*step with grid level   *)
(* num_grids + i, each with the quantity per level.                        *)
(***************************************************************************)
C2_ExactPrices ==
    LadderDone =>
       \A k \in 0 .. num_grids - 1 :
          /\ InitialCalls[k + 1].side = "BUY"
          /\ InitialCalls[k + 1].price =
                Fx(lower_bound, num_grids) + k * grid_step
          /\ InitialCalls[k + 1].grid_level = k
          /\ InitialCalls[k + 1].quantity = quantity_per_grid
          /\ InitialCalls[num_grids + k + 1].side = "SELL"
          /\ InitialCalls[num_grids + k + 1].price =
                Fx(upper_bound, num_grids) - k * grid_step
          /\ InitialCalls[num_grids + k + 1].grid_level = num_grids + k
          /\ InitialCalls[num_grids + k + 1].quantity = quantity_per_grid

(***************************************************************************)
(* C2 amended: the i-th BUY is submitted at lower + i*step rounded to 2    *)
(* decimals with grid level i, the i-th SELL at upper - i*step rounded to  *)
(* 2 decimals with grid level num_grids + i, each with the quantity per    *)
(* level; for 40000/50000/5 the BUY prices are 40000, 42000, 44000, 46000, *)
(* 48000 and the SELL prices 50000, 48000, 46000, 44000, 42000.            *)
(***************************************************************************)
C2_RoundedPrices ==
    LadderDone =>
       /\ \A k \in 0 .. num_grids - 1 :
             /\ InitialCalls[k + 1].side = "BUY"
             /\ IsRounded(Fx(lower_bound, num_grids) + k * grid_step,
                          InitialCalls[k + 1].price)
             /\ InitialCalls[k + 1].grid_level = k
             /\ InitialCalls[k + 1].quantity = quantity_per_grid
             /\ InitialCalls[num_grids + k + 1].side = "SELL"
             /\ IsRounded(Fx(upper_bound, num_grids) - k * grid_step,
                          InitialCalls[num_grids + k + 1].price)
             /\ InitialCalls[num_grids + k + 1].grid_level = num_grids + k
             /\ InitialCalls[num_grids + k + 1].quantity = quantity_per_grid
       /\ (lower_bound = 40000 * 100 * TickSub
             /\ upper_bound = 50000 * 100 * TickSub /\ num_grids = 5) =>
             /\ [k \in 1 .. 5 |-> InitialCalls[k].price] =
                   <<Px(40000), Px(42000), Px(44000), Px(46000), Px(48000)>>
             /\ [k \in 1 .. 5 |-> InitialCalls[5 + k].price] =
                   <<Px(50000), Px(48000), Px(46000), Px(44000), Px(42000)>>

\* the ladder 40000/50000/5 was placed
C2_Witness ==
    /\ LadderDone
    /\ lower_bound = 40000 * 100 * TickSub
    /\ upper_bound = 50000 * 100 * TickSub
    /\ num_grids = 5

(***************************************************************************)
(* C3: every initial BUY is priced at or below the midpoint of the range   *)
(* and every initial SELL at or above it, so no initial BUY is priced      *)
(* above an initial SELL.                                                  *)
(***************************************************************************)
C3_BuysBelowSells ==
    LadderDone =>
       LET mid2 == Fx(lower_bound, num_grids) + Fx(upper_bound, num_grids)
       IN  /\ \A k \in 1 .. Len(InitialCalls) :
                 /\ InitialCalls[k].side = "BUY" =>
                       2 * InitialCalls[k].price <= mid2
                 /\ InitialCalls[k].side = "SELL" =>
                       2 * InitialCalls[k].price >= mid2
           /\ \A j, k \in 1 .. Len(InitialCalls) :
                 (InitialCalls[j].side = "BUY"
                    /\ InitialCalls[k].side = "SELL") =>
                       InitialCalls[j].price <= InitialCalls[k].price

(***************************************************************************)
(* C4: a call with an invalid parameter returns None, issues no gateway    *)
(* call and has no side effect: nothing of the state it can reach is       *)
(* changed by it.                                                          *)
(***************************************************************************)
C4_RejectedCallHasNoEffect ==
    [][(pc = "idle" /\ pc' # "idle" /\ ~Valid) =>
          /\ pc' = "done"
          /\ result'.kind = "None"
          /\ calls' = calls
          /\ UNCHANGED <<grid_running, grid_orders, counters, cycle_count,
                         exchange_open, next_order_id, cancelled_count>>]_vars

(***************************************************************************)
(* C5: when every initial placement failed the call returns None without   *)
(* a monitoring cycle, an open-orders fetch or a cancel; when at least one *)
(* succeeded it does not return None and reaches the monitoring loop with  *)
(* the tracker holding exactly the accepted orders, in order.              *)
(***************************************************************************)
AcceptedInitialCalls == SelectSeq(InitialCalls, LAMBDA c : c.ok)

C5_EmptyLadderIsFatal ==
    /\ [](/\ (LadderDone /\ Len(AcceptedInitialCalls) = 0) =>
                /\ pc = "done"
                /\ result = ReturnNone
                /\ cycle_count = 0
                /\ calls = InitialCalls
          /\ (LadderDone /\ Len(AcceptedInitialCalls) > 0) =>
                /\ result.kind # "None"
                /\ (pc = "loop" /\ cycle_count = 0) =>
                      grid_orders =
                         [k \in 1 .. Len(AcceptedInitialCalls) |->
                            LET c == AcceptedInitialCalls[k]
                            IN  TrackedOrder(c.order_id, c.side, c.price,
                                             c.grid_level, c.quantity)])
    /\ [][(pc = "place_sell" /\ pc' # "place_sell"
             /\ interrupted' # "placement") =>
             pc' = IF Len(grid_orders') = 0 THEN "done" ELSE "loop"]_vars

\* every placement of a complete ladder was rejected and None came back
C5_Witness ==
    /\ LadderDone
    /\ Len(InitialCalls) = 2 * num_grids
    /\ Len(AcceptedInitialCalls) = 0
    /\ result = ReturnNone

(***************************************************************************)
(* C6: in a cycle whose fetch succeeded the orders removed from the        *)
(* tracker are exactly the tracked ids that were not in the open set (all  *)
(* of them once the cycle is over, none else while it runs), each removal  *)
(* adds one to the fill counter of the order's own side, and a tracked     *)
(* order that was in the open set is still tracked, unchanged.             *)
(***************************************************************************)
Range(f) == {f[k] : k \in 1 .. Len(f)}

RemovedThisCycle == KeySet(snap.tracked) \ KeySet(grid_orders)

C6_RemovedIsTrackedMinusOpen ==
    (pc \in {"replace", "sleepcheck"} /\ snap.ok) =>
       LET tracked == KeySet(snap.tracked)
           due == tracked \ open_order_ids
           pending == Range(filled_order_ids)
           SideOf(id) == Lookup(snap.tracked, id).side
       IN  /\ RemovedThisCycle \cup pending = due
           /\ RemovedThisCycle \cap pending = {}
           /\ pc = "sleepcheck" => RemovedThisCycle = due
           /\ total_buy_fills - snap.buy_fills =
                 Cardinality({id \in RemovedThisCycle : SideOf(id) = "BUY"})
           /\ total_sell_fills - snap.sell_fills =
                 Cardinality({id \in RemovedThisCycle : SideOf(id) = "SELL"})
           /\ \A id \in tracked \cap open_order_ids :
                 /\ id \in KeySet(grid_orders)
                 /\ Lookup(grid_orders, id) = Lookup(snap.tracked, id)

\* a cycle ended in which one tracked order had left the open set and
\* another had not
C6_Witness ==
    /\ pc = "sleepcheck"
    /\ snap.ok
    /\ RemovedThisCycle # {}
    /\ total_buy_fills + total_sell_fills > 0
    /\ KeySet(snap.tracked) \cap open_order_ids # {}

(***************************************************************************)
(* Fills processed and the create requests made for them                   *)
(***************************************************************************)
\* positions in calls of the create requests made for filled order id
RequestsFor(id) ==
    {j \in 1 .. Len(calls) : calls[j].op = "create" /\ calls[j].of = id}

\* a fill whose processing was not cut short by Ctrl+C
Processed(e) == e.mirror # "interrupted"

\* price one step away from a filled order, before any rounding
OneStepAway(o) ==
    IF o.side = "BUY" THEN o.price + grid_step ELSE o.price - grid_step

\* x rounded to 2 decimals, by the definition of IsRounded
RoundedOf(x) ==
    LET u == TickSub * num_grids
        lo == (x \div u) * u
    IN  CHOOSE p \in {lo, lo + u} : IsRounded(x, p)

WithinBounds(p) ==
    Fx(lower_bound, num_grids) <= p /\ p <= Fx(upper_bound, num_grids)

LevelCount(level) ==
    Cardinality({k \in 1 .. Len(grid_orders) :
                    grid_orders[k].grid_level = level})

\* the order as tracked while it rests: still in the tracker, or recorded
\* in fill_log when it was taken out
TrackedAs(id, info) ==
    \/ id \in KeySet(grid_orders) /\ Lookup(grid_orders, id) = info
    \/ \E k \in 1 .. Len(fill_log) : fill_log[k].order = info

(***************************************************************************)
(* C7 as stated: the request made for a filled BUY at P is a SELL at       *)
(* exactly P + step, for a filled SELL a BUY at exactly P - step, with the *)
(* grid level and quantity of the filled order; once accepted it is in the *)
(* tracker under its new id.                                               *)
(***************************************************************************)
C7_MirrorExact ==
    \A k \in 1 .. Len(fill_log) :
       LET e == fill_log[k]
           o == e.order
       IN  Processed(e) =>
              /\ \A j \in RequestsFor(o.order_id) :
                    /\ calls[j].side = (IF o.side = "BUY" THEN "SELL"
                                        ELSE "BUY")
                    /\ calls[j].price = OneStepAway(o)
                    /\ calls[j].grid_level = o.grid_level
                    /\ calls[j].quantity = o.quantity
              /\ e.mirror = "placed" =>
                    \E j \in RequestsFor(o.order_id) :
                       /\ calls[j].ok
                       /\ calls[j].order_id = e.new_order_id
                       /\ TrackedAs(e.new_order_id,
                             TrackedOrder(e.new_order_id, calls[j].side,
                                calls[j].price, o.grid_level, o.quantity))

(***************************************************************************)
(* C7 amended: the request made for a filled BUY at P is a SELL at P +     *)
(* step rounded to 2 decimals, for a filled SELL a BUY at P - step rounded *)
(* to 2 decimals, with the grid level and quantity of the filled order;    *)
(* once accepted it is in the tracker under its new id.                    *)
(***************************************************************************)
C7_MirrorRounded ==
    [](\A k \in 1 .. Len(fill_log) :
          LET e == fill_log[k]
              o == e.order
          IN  Processed(e) =>
                 /\ \A j \in RequestsFor(o.order_id) :
                       /\ calls[j].side = (IF o.side = "BUY" THEN "SELL"
                                           ELSE "BUY")
                       /\ IsRounded(OneStepAway(o), calls[j].price)
                       /\ calls[j].grid_level = o.grid_level
                       /\ calls[j].quantity = o.quantity
                 /\ e.mirror = "placed" =>
                       \E j \in RequestsFor(o.order_id) :
                          /\ calls[j].ok
                          /\ calls[j].order_id = e.new_order_id
                          /\ TrackedAs(e.new_order_id,
                                TrackedOrder(e.new_order_id, calls[j].side,
                                   calls[j].price, o.grid_level, o.quantity)))

\* a filled SELL was mirrored by an accepted BUY whose price had to be
\* rounded
C7_Witness ==
    \E k \in 1 .. Len(fill_log) :
       /\ fill_log[k].mirror = "placed"
       /\ fill_log[k].order.side = "SELL"
       /\ fill_log[k].new_order_id \in KeySet(grid_orders)
       /\ Lookup(grid_orders, fill_log[k].new_order_id).price
             # OneStepAway(fill_log[k].order)

(***************************************************************************)
(* C8 as stated: a processed fill of a BUY at P has exactly one create     *)
(* request, a SELL at P + step, if P + step <= upper (a SELL fill one BUY  *)
(* at P - step if P - step >= lower); otherwise it has none and no order   *)
(* of its grid level is tracked from then on.                              *)
(***************************************************************************)
C8_ReplacedIffStepInside ==
    \A k \in 1 .. Len(fill_log) :
       LET e == fill_log[k]
           o == e.order
           x == OneStepAway(o)
           inside == IF o.side = "BUY"
                     THEN x <= Fx(upper_bound, num_grids)
                     ELSE x >= Fx(lower_bound, num_grids)
       IN  Processed(e) =>
              IF inside
              THEN /\ Cardinality(RequestsFor(o.order_id)) = 1
                   /\ \A j \in RequestsFor(o.order_id) :
                         calls[j].side # o.side /\ calls[j].price = x
              ELSE /\ RequestsFor(o.order_id) = {}
                   /\ LevelCount(o.grid_level) = 0

(***************************************************************************)
(* C8 amended: a processed fill of a BUY at P has exactly one create       *)
(* request, a SELL at P + step rounded to 2 decimals, if that rounded      *)
(* price lies within [lower, upper] (a SELL fill one BUY at P - step       *)
(* rounded, on the same condition); otherwise it has none and no order of  *)
(* its grid level is tracked from then on.                                 *)
(***************************************************************************)
C8_ReplacedIffRoundedInside ==
    [](\A k \in 1 .. Len(fill_log) :
          LET e == fill_log[k]
              o == e.order
              p == RoundedOf(OneStepAway(o))
          IN  Processed(e) =>
                 IF WithinBounds(p)
                 THEN /\ Cardinality(RequestsFor(o.order_id)) = 1
                      /\ \A j \in RequestsFor(o.order_id) :
                            calls[j].side # o.side /\ calls[j].price = p
                      /\ e.mirror # "skipped"
                 ELSE /\ RequestsFor(o.order_id) = {}
                      /\ e.mirror = "skipped"
                      /\ LevelCount(o.grid_level) = 0)

\* a fill was left without replacement and a later cycle has begun
C8_Witness ==
    \E k \in 1 .. Len(fill_log) :
       /\ fill_log[k].mirror = "skipped"
       /\ fill_log[k].cycle < cycle_count
       /\ Len(grid_orders) > 0

(***************************************************************************)
(* C9: every order in the tracker has a price within [lower, upper].       *)
(***************************************************************************)
C9_TrackedPricesInBounds ==
    \A k \in 1 .. Len(grid_orders) : WithinBounds(grid_orders[k].price)

(***************************************************************************)
(* C10: a step in which a gateway call fails inside the monitoring loop    *)
(* stays inside the loop, and the loop is left only for the cleanup, with  *)
(* the flag cleared, after stop_grid() or on Ctrl+C; an empty tracker does *)
(* not end it.                                                             *)
(***************************************************************************)
LoopPcs == {"loop", "replace", "sleepcheck", "sleeping"}

C10_OnlyStopOrInterruptEndsLoop ==
    [][/\ (pc \in LoopPcs /\ nfailures' > nfailures) => pc' \in LoopPcs
       /\ (pc \in LoopPcs /\ pc' \notin LoopPcs) =>
             /\ pc' \in {"cancel", "done"}
             /\ ~grid_running'
             /\ stop_requested \/ interrupted' \in {"loop", "replace"}]_vars

\* a second cycle runs on an empty tracker after a gateway call of the
\* first cycle failed
C10_Witness ==
    /\ pc \in LoopPcs
    /\ cycle_count = 2
    /\ Len(grid_orders) = 0
    /\ \E j \in 1 .. Len(calls) : ~calls[j].ok /\ calls[j].cycle = 1

(***************************************************************************)
(* Shutdown: the cancel requests issued so far                             *)
(***************************************************************************)
CancelCalls == SelectSeq(calls, LAMBDA c : c.op = "cancel")

\* positions in calls of the cancel requests made for order id
CancelRequestsFor(id) ==
    {j \in 1 .. Len(calls) : calls[j].op = "cancel" /\ calls[j].order_id = id}

SucceededCancels ==
    {j \in 1 .. Len(calls) : calls[j].op = "cancel" /\ calls[j].ok}

(***************************************************************************)
(* C11: in the cleanup the cancel requests go, one each and in tracker     *)
(* order, to the orders still in the tracker, the failed ones included     *)
(* and followed by the requests for the remaining orders; the counter and  *)
(* the summary's orders_cancelled equal the number of cancel requests      *)
(* that succeeded.                                                         *)
(***************************************************************************)
C11_OneCancelPerTrackedOrder ==
    /\ pc = "cancel" =>
          /\ i < Len(grid_orders)
          /\ [k \in 1 .. Len(CancelCalls) |-> CancelCalls[k].order_id]
                = SubSeq(Keys(grid_orders), 1, i)
          /\ cancelled_count = Cardinality(SucceededCancels)
    /\ result.kind = "summary" =>
          /\ [k \in 1 .. Len(CancelCalls) |-> CancelCalls[k].order_id]
                = Keys(grid_orders)
          /\ \A id \in KeySet(grid_orders) :
                Cardinality(CancelRequestsFor(id)) = 1
          /\ result.orders_cancelled = Cardinality(SucceededCancels)

\* a summary was returned after the first cancellation failed and a later
\* one succeeded
C11_Witness ==
    /\ result.kind = "summary"
    /\ Len(CancelCalls) >= 2
    /\ ~CancelCalls[1].ok
    /\ CancelCalls[Len(CancelCalls)].ok
    /\ result.orders_cancelled = Len(CancelCalls) - 1

(***************************************************************************)
(* C12: when Ctrl+C arrived in a session that had orders (tracked, or       *)
(* accepted by the exchange), the session ends with a summary and every    *)
(* order in the tracker has received a cancel request.                     *)
(***************************************************************************)
C12_InterruptShutsDownGracefully ==
    (/\ pc = "done"
     /\ interrupted # "no"
     /\ \/ Len(grid_orders) > 0
        \/ \E j \in 1 .. Len(calls) : calls[j].op = "create" /\ calls[j].ok) =>
       /\ result.kind = "summary"
       /\ \A id \in KeySet(grid_orders) : CancelRequestsFor(id) # {}

(***************************************************************************)
(* C13: once stop_grid() has been called in a session the flag stays       *)
(* cleared; the cycle in progress goes on through its remaining filled     *)
(* orders, the sleep after it is skipped, no further cycle starts, and the *)
(* step that leaves the loop test goes to the cleanup.                     *)
(***************************************************************************)
StoppedInSession == stop_requested /\ pc # "idle"

C13_StopIsCooperative ==
    /\ [](StoppedInSession => ~grid_running)
    /\ [][StoppedInSession =>
            /\ cycle_count' = cycle_count
            /\ sleeps' = sleeps
            /\ pc' # "sleeping"
            /\ (pc = "replace" /\ pc' # "replace" /\ interrupted' = interrupted)
                  => (pc' = "sleepcheck" /\ Len(filled_order_ids) = 1)
            /\ (pc = "replace" /\ pc' = "replace"
                  /\ fill_log' # fill_log)
                  => filled_order_ids' = Tail(filled_order_ids)
            /\ (pc = "sleepcheck" /\ pc' # pc) => pc' = "loop"
            /\ (pc = "loop" /\ pc' # pc) => pc' \in {"cancel", "done"}]_vars

\* stop_grid() came while a cycle was processing a fill: the cycle ended,
\* no sleep followed it and the engine is in the cleanup or has returned
C13_Witness ==
    /\ stop_requested
    /\ interrupted = "no"
    /\ pc \in {"cancel", "done"}
    /\ cycle_count = 2
    /\ sleeps = 1
    /\ \E k \in 1 .. Len(fill_log) : fill_log[k].cycle = 2

(***************************************************************************)
(* C14: in every summary returned total_trades = buy_fills + sell_fills,   *)
(* the two being the fill counters of the session.                         *)
(***************************************************************************)
C14_TotalTradesIsSumOfFills ==
    result.kind = "summary" =>
       /\ result.total_trades = result.buy_fills + result.sell_fills
       /\ result.buy_fills = total_buy_fills
       /\ result.sell_fills = total_sell_fills

\* a summary that counts a BUY fill and a SELL fill
C14_Witness ==
    /\ result.kind = "summary"
    /\ result.buy_fills > 0
    /\ result.sell_fills > 0

(***************************************************************************)
(* C15: no order ever receives more than one cancel request, an order      *)
(* removed from the tracker receives none, and nothing but an order in     *)
(* the tracker receives one.                                               *)
(***************************************************************************)
C15_NoDoubleCancel ==
    [](/\ \A j \in 1 .. Len(calls) :
             calls[j].op = "cancel" =>
                /\ Cardinality(CancelRequestsFor(calls[j].order_id)) = 1
                /\ calls[j].order_id \in KeySet(grid_orders)
       /\ \A k \in 1 .. Len(fill_log) :
             CancelRequestsFor(fill_log[k].order.order_id) = {})

\* the cleanup ran to its end in a session that had removed a filled order
\* from the tracker and still tracked another
C15_Witness ==
    /\ result.kind = "summary"
    /\ Len(fill_log) > 0
    /\ Len(CancelCalls) > 0
    /\ Len(CancelCalls) = Len(grid_orders)

(***************************************************************************)
(* Vocabulary of the TWAP properties                                       *)
(***************************************************************************)
\* the arguments satisfy the preconditions: well-formed symbol and side,
\* positive quantity, num_orders and interval_seconds positive integers
TwapInputsValid ==
    /\ TwapParamsValid(twap_symbol, twap_side, total_quantity,
                       num_orders_arg, interval_seconds_arg)
    /\ num_orders_arg % 2 = 0
    /\ interval_seconds_arg % 2 = 0

\* numChunks and intervalSeconds as the caller gave them
NumChunks == num_orders_arg \div 2
IntervalSeconds == interval_seconds_arg \div 2

TwapReturned == twap_result.kind = "summary"

\* the market orders submitted so far, in the order issued
TwapCreates == SelectSeq(twap_log, LAMBDA e : e.op = "create")
TwapSleeps == SelectSeq(twap_log, LAMBDA e : e.op = "sleep")

ChunkNumbers(orders) == {orders[k].chunk_number : k \in 1 .. Len(orders)}

Increasing(orders) ==
    \A k \in 1 .. Len(orders) - 1 :
       orders[k].chunk_number < orders[k + 1].chunk_number

\* sum of f[k] for k in 1 .. n
RECURSIVE SumTo(_, _)
SumTo(f, n) == IF n = 0 THEN 0 ELSE SumTo(f, n - 1) + f[n]

(***************************************************************************)
(* C16: for valid inputs the k-th request of a call is the market order of *)
(* chunk k, with the given side and the quantity totalQuantity/numChunks;  *)
(* after k iterations k requests have been issued whatever their outcomes, *)
(* and numChunks of them when the call returns.                            *)
(***************************************************************************)
C16_TwapSubmitsEveryChunk ==
    TwapInputsValid =>
       /\ twap_pc = "chunk" => Len(TwapCreates) = chunk_i
       /\ twap_pc = "sleeping" => Len(TwapCreates) = chunk_i + 1
       /\ TwapReturned => Len(TwapCreates) = NumChunks
       /\ Len(TwapCreates) <= NumChunks
       /\ \A k \in 1 .. Len(TwapCreates) :
             /\ TwapCreates[k].chunk_number = k
             /\ TwapCreates[k].type = "MARKET"
             /\ TwapCreates[k].side = Upper(twap_side)
             /\ TwapCreates[k].symbol = twap_symbol
             /\ FracEq(TwapCreates[k].quantity,
                       Frac(total_quantity, NumChunks))

\* a call of three chunks returned although the first chunk failed with a
\* gateway error and the second with an unexpected error
C16_Witness ==
    /\ TwapInputsValid
    /\ TwapReturned
    /\ NumChunks = 3
    /\ Len(failed_orders) = 2
    /\ failed_orders[1].error_code = APIErrorCode
    /\ failed_orders[2].error_code = Unknown
    /\ TwapCreates[3].accepted

(***************************************************************************)
(* C17: the chunks processed so far appear, each once, in exactly one of   *)
(* executed_orders and failed_orders, both in increasing chunk order; the  *)
(* entries written are never changed or removed; and the summary returned  *)
(* holds these lists, with executed_chunks + failed_chunks =               *)
(* total_chunks = numChunks.                                               *)
(***************************************************************************)
C17_EveryChunkRecordedOnce ==
    /\ [](/\ ChunkNumbers(executed_orders) \cap ChunkNumbers(failed_orders)
                = {}
          /\ ChunkNumbers(executed_orders) \cup ChunkNumbers(failed_orders)
                = 1 .. (Len(executed_orders) + Len(failed_orders))
          /\ Increasing(executed_orders)
          /\ Increasing(failed_orders)
          /\ twap_pc = "chunk" =>
                Len(executed_orders) + Len(failed_orders) = chunk_i
          /\ twap_pc = "sleeping" =>
                Len(executed_orders) + Len(failed_orders) = chunk_i + 1
          /\ TwapReturned =>
                /\ twap_result.executed_orders = executed_orders
                /\ twap_result.failed_orders = failed_orders
                /\ twap_result.executed_chunks = Len(executed_orders)
                /\ twap_result.failed_chunks = Len(failed_orders)
                /\ twap_result.total_chunks = num_orders
                /\ twap_result.executed_chunks + twap_result.failed_chunks
                      = twap_result.total_chunks
                /\ TwapInputsValid => twap_result.total_chunks = NumChunks)
    /\ [][/\ Len(executed_orders') >= Len(executed_orders)
          /\ Len(failed_orders') >= Len(failed_orders)
          /\ SubSeq(executed_orders', 1, Len(executed_orders))
                = executed_orders
          /\ SubSeq(failed_orders', 1, Len(failed_orders)) = failed_orders
          /\ TwapReturned => twap_result' = twap_result]_vars

\* a summary of three chunks with chunks in both lists
C17_Witness ==
    /\ TwapReturned
    /\ twap_result.total_chunks = 3
    /\ twap_result.executed_chunks > 0
    /\ twap_result.failed_chunks > 0

(***************************************************************************)
(* C18: a sleep of intervalSeconds follows every submission but the last   *)
(* and comes before the next: in the history submissions and sleeps        *)
(* alternate, no sleep follows chunk num_orders, and a call that returns   *)
(* has slept num_orders - 1 times, failed chunks or not.                   *)
(***************************************************************************)
C18_OneSleepBetweenChunks ==
    /\ Len(twap_log) > 0 => twap_log[1].op = "create"
    /\ \A j \in 1 .. Len(twap_log) :
          /\ (twap_log[j].op = "create" /\ j < Len(twap_log)) =>
                /\ twap_log[j + 1].op = "sleep"
                /\ twap_log[j + 1].chunk_number = twap_log[j].chunk_number
          /\ (twap_log[j].op = "sleep" /\ j < Len(twap_log)) =>
                twap_log[j + 1].op = "create"
          /\ twap_log[j].op = "sleep" =>
                /\ twap_log[j].chunk_number < num_orders
                /\ twap_log[j].seconds = interval_seconds
                /\ TwapInputsValid => twap_log[j].seconds = IntervalSeconds
    /\ TwapReturned =>
          /\ Len(TwapSleeps) = num_orders - 1
          /\ twap_log[Len(twap_log)].op = "create"

\* a call of three chunks returned after two sleeps, a chunk having failed
C18_Witness ==
    /\ TwapReturned
    /\ num_orders = 3
    /\ Len(TwapSleeps) = 2
    /\ Len(failed_orders) > 0

(***************************************************************************)
(* C19: in every summary success is failed_chunks = 0; when no chunk was   *)
(* executed success is false and executed_quantity and                     *)
(* avg_execution_price are 0; and the average is a defined number (its     *)
(* divisor is not 0), being 0 when the executed quantity is 0.             *)
(***************************************************************************)
C19_SuccessIffNoFailedChunk ==
    TwapReturned =>
       /\ twap_result.success <=> (twap_result.failed_chunks = 0)
       /\ twap_result.executed_chunks = 0 =>
             /\ ~twap_result.success
             /\ twap_result.executed_quantity = 0
             /\ twap_result.avg_execution_price = Frac(0, 1)
       /\ twap_result.avg_execution_price.den # 0
       /\ twap_result.executed_quantity = 0 =>
             twap_result.avg_execution_price = Frac(0, 1)

\* a summary of three chunks that all failed
C19_Witness ==
    /\ TwapReturned
    /\ twap_result.total_chunks = 3
    /\ twap_result.failed_chunks = 3

(***************************************************************************)
(* C20: in every summary executed_quantity is the sum of the executed      *)
(* quantities of the chunks recorded as executed (all of them chunks the   *)
(* gateway accepted), and, when it is positive, avg_execution_price times  *)
(* executed_quantity is the sum of executed quantity times average price   *)
(* over those chunks.                                                      *)
(***************************************************************************)
C20_Aggregation ==
    TwapReturned =>
       LET eo == twap_result.executed_orders
           qty == [k \in 1 .. Len(eo) |-> eo[k].executed_qty]
           value == [k \in 1 .. Len(eo) |->
                       eo[k].executed_qty * eo[k].avg_price]
           avg == twap_result.avg_execution_price
       IN  /\ ChunkNumbers(eo) \subseteq
                {TwapCreates[k].chunk_number :
                    k \in {j \in 1 .. Len(TwapCreates) :
                              TwapCreates[j].accepted}}
           /\ twap_result.executed_quantity = SumTo(qty, Len(eo))
           /\ twap_result.executed_quantity > 0 =>
                 /\ avg.den # 0
                 /\ avg.num * twap_result.executed_quantity
                       = SumTo(value, Len(eo)) * avg.den

\* a summary with a failed chunk and two executed chunks that differ in
\* quantity and in price
C20_Witness ==
    /\ TwapReturned
    /\ twap_result.failed_chunks = 1
    /\ twap_result.executed_chunks = 2
    /\ twap_result.executed_orders[1].executed_qty
          # twap_result.executed_orders[2].executed_qty
    /\ twap_result.executed_orders[1].avg_price
          # twap_result.executed_orders[2].avg_price

(***************************************************************************)
(* C21: a chunk whose market order the gateway accepted is recorded in     *)
(* executed_orders, with the executed quantity, average price and order id *)
(* the gateway reported, and in failed_orders never; a chunk whose gateway *)
(* call failed is recorded in failed_orders with the error code of the     *)
(* failure (UNKNOWN when it carried none); and every entry of either list  *)
(* stems from such a call.                                                 *)
(***************************************************************************)
\* the market orders whose gateway call came back to the engine
TwapAnswered == SelectSeq(TwapCreates, LAMBDA c : c.response.kind # "none")

C22_ChunkInFlightCompletes ==
    [][(twap_pc = "chunk" /\ twap_pc' # "chunk") =>
          /\ Len(executed_orders') + Len(failed_orders') = chunk_i + 1
          /\ (chunk_i + 1) \in ChunkNumbers(executed_orders')
                                \cup ChunkNumbers(failed_orders')]_vars

(***************************************************************************)
(* C23: a call whose arguments violate a precondition (malformed symbol or *)
(* side, total quantity not positive, num_orders or interval_seconds not a *)
(* positive integer) returns None, having submitted no order and taken no  *)
(* sleep.                                                                  *)
(***************************************************************************)
C23_InvalidTwapCallDoesNothing ==
    (~TwapInputsValid /\ twap_pc # "idle") =>
       /\ twap_pc = "done"
       /\ twap_result = TwapNone
       /\ twap_log = <<>>
       /\ executed_orders = <<>>
       /\ failed_orders = <<>>

(***************************************************************************)
(* Detection of the orders that had left the exchange when a cycle began   *)
(***************************************************************************)
\* tracked orders that were not open at the exchange when the cycle in
\* progress made its fetch
GoneAtFetch == KeySet(snap.tracked) \ snap.open

\* ids of the fills processed in the cycle in progress
DetectedThisCycle ==
    {fill_log[k].order.order_id :
        k \in {j \in 1 .. Len(fill_log) : fill_log[j].cycle = snap.cycle}}

C25_StopRequestIsNotRevoked ==
    [][/\ (stop_requested /\ pc \in LoopPcs /\ ~grid_running)
             => ~grid_running'
       /\ (stop_requested /\ pc = "loop" /\ pc' # "loop")
             => pc' \in {"cancel", "done"}]_vars

(***************************************************************************)
(* C26: when the gateway rejects the replacement of a filled order, the    *)
(* filled order is removed from the tracker and counted, no placed-order   *)
(* counter moves, and the cycle goes on with its remaining fills; from     *)
(* then on the order stays out of the tracker, its replacement is          *)
(* requested once only, and no order of its grid level is tracked or       *)
(* requested again.                                                        *)
(***************************************************************************)
\* the fill processed by this step had its replacement rejected
RejectedNow ==
    /\ Len(fill_log') = Len(fill_log) + 1
    /\ fill_log'[Len(fill_log')].mirror = "rejected"

C26_RejectedMirrorLeavesLevelVacant ==
    /\ [](\A k \in 1 .. Len(fill_log) :
            LET e == fill_log[k]
                o == e.order
            IN  e.mirror = "rejected" =>
                   /\ o.order_id \notin KeySet(grid_orders)
                   /\ Cardinality(RequestsFor(o.order_id)) = 1
                   /\ \A j \in RequestsFor(o.order_id) :
                         /\ ~calls[j].ok
                         /\ \A l \in (j + 1) .. Len(calls) :
                               calls[l].op = "create" =>
                                  calls[l].grid_level # o.grid_level
                   /\ LevelCount(o.grid_level) = 0
                   /\ total_buy_fills + total_sell_fills >= k)
    /\ [][RejectedNow =>
            LET o == fill_log'[Len(fill_log')].order
            IN  /\ o.order_id = Head(filled_order_ids)
                /\ grid_orders' = DictDel(grid_orders, o.order_id)
                /\ total_buy_fills' = total_buy_fills
                      + (IF o.side = "BUY" THEN 1 ELSE 0)
                /\ total_sell_fills' = total_sell_fills
                      + (IF o.side = "SELL" THEN 1 ELSE 0)
                /\ total_buy_orders_placed' = total_buy_orders_placed
                /\ total_sell_orders_placed' = total_sell_orders_placed
                /\ filled_order_ids' = Tail(filled_order_ids)
                /\ pc' = IF Len(filled_order_ids') > 0 THEN "replace"
                         ELSE "sleepcheck"]_vars

\* the replacement of the first of two fills of a cycle was rejected, the
\* second fill was replaced, and a later cycle has begun
C26_Witness ==
    /\ Len(fill_log) = 2
    /\ fill_log[1].mirror = "rejected"
    /\ fill_log[2].mirror = "placed"
    /\ fill_log[1].cycle = fill_log[2].cycle
    /\ cycle_count > fill_log[1].cycle
    /\ pc \in LoopPcs

(***************************************************************************)
(* C27: the step in which the open-orders fetch of a cycle fails counts    *)
(* the cycle and changes neither the tracker nor a placed or fill counter; *)
(* until that cycle is over no create or cancel request is issued and      *)
(* tracker and counters stay as they are; the cycle ends at the sleep      *)
(* test, from where the loop goes to its sleep and back to the loop test   *)
(* (straight back when stop_grid() has cleared the flag).                  *)
(***************************************************************************)
\* this step is a fetch that fails
FetchFailsNow ==
    /\ Len(calls') = Len(calls) + 1
    /\ calls'[Len(calls')].op = "open_orders"
    /\ ~calls'[Len(calls')].ok

\* a cycle whose fetch failed is at its end
FailedCycleEnds == pc = "sleepcheck" /\ ~snap.ok

C27_FailedFetchCycleChangesNothing ==
    /\ [](FailedCycleEnds =>
            /\ grid_orders = snap.tracked
            /\ total_buy_fills = snap.buy_fills
            /\ total_sell_fills = snap.sell_fills
            /\ cycle_count = snap.cycle
            /\ calls[Len(calls)] = FetchCall(FALSE, cycle_count))
    /\ [][/\ FetchFailsNow =>
               /\ cycle_count' = cycle_count + 1
               /\ grid_orders' = grid_orders
               /\ UNCHANGED counters
               /\ pc' = "sleepcheck"
          /\ FailedCycleEnds =>
               /\ UNCHANGED <<grid_orders, counters, calls, cycle_count>>
               /\ pc' # pc =>
                     /\ pc' = IF grid_running THEN "sleeping" ELSE "loop"
                     /\ sleeps' = sleeps + (IF grid_running THEN 1 ELSE 0)
          /\ (pc = "sleeping" /\ ~snap.ok /\ pc' # pc
                /\ interrupted' = interrupted) =>
               /\ pc' = "loop"
               /\ UNCHANGED <<grid_orders, counters, calls, cycle_count>>]_vars

\* the fetch of the first cycle failed with an order of the tracker gone
\* from the exchange; the engine slept and has begun its second cycle
C27_Witness ==
    /\ cycle_count = 2
    /\ sleeps >= 1
    /\ pc \in {"replace", "sleepcheck"}
    /\ calls[Len(InitialCalls) + 1] = FetchCall(FALSE, 1)
    /\ calls[Len(InitialCalls) + 2].op = "open_orders"
    /\ Len(filled_order_ids) + Len(fill_log) > 0

(***************************************************************************)
(* The life of an order, read from the history                             *)
(***************************************************************************)
\* ids of the orders the exchange accepted from the engine
PlacedIds ==
    {calls[j].order_id :
        j \in {l \in 1 .. Len(calls) :
                 calls[l].op = "create" /\ calls[l].ok}}

\* positions in fill_log at which order id was removed and counted
FillsOf(id) == {k \in 1 .. Len(fill_log) : fill_log[k].order.order_id = id}

\* the terminal outcomes order id has reached
Replaced(id) == \E k \in FillsOf(id) : fill_log[k].mirror = "placed"
Vacant(id) == \E k \in FillsOf(id) : fill_log[k].mirror # "placed"
CancelledAtShutdown(id) == CancelRequestsFor(id) # {}

Outcomes(id) ==
    (IF Replaced(id) THEN {"Replaced"} ELSE {})
       \cup (IF Vacant(id) THEN {"Vacant"} ELSE {})
       \cup (IF CancelledAtShutdown(id) THEN {"CancelledAtShutdown"} ELSE {})

(***************************************************************************)
(* C28: the step that removes an order as filled takes an order that is in *)
(* the tracker, that was not removed before and has no cancel request,     *)
(* counts one fill and issues at most one create request, the mirror being *)
(* placed exactly when that request is accepted; a mirror is requested in  *)
(* such a step only; a cancel request is made in the cleanup only, for an  *)
(* order in the tracker; a removed order is never in the tracker again and *)
(* the fill counters count the removals.  So, when the session has ended,  *)
(* no order placed has reached more than one of Replaced, Vacant and       *)
(* CancelledAtShutdown.                                                    *)
(***************************************************************************)
C28_OneTerminalOutcome ==
    /\ [](/\ \A k \in 1 .. Len(fill_log) :
                fill_log[k].order.order_id \notin KeySet(grid_orders)
          /\ total_buy_fills + total_sell_fills = Len(fill_log)
          /\ pc = "done" =>
                \A id \in PlacedIds : Cardinality(Outcomes(id)) <= 1)
    /\ [][/\ Len(fill_log') > Len(fill_log) =>
               LET e == fill_log'[Len(fill_log')]
                   id == e.order.order_id
               IN  /\ Len(fill_log') = Len(fill_log) + 1
                   /\ id \in KeySet(grid_orders)
                   /\ id \notin KeySet(grid_orders')
                   /\ FillsOf(id) = {}
                   /\ CancelRequestsFor(id) = {}
                   /\ RequestsFor(id) = {}
                   /\ (total_buy_fills' + total_sell_fills')
                         = (total_buy_fills + total_sell_fills) + 1
                   /\ Len(calls') <= Len(calls) + 1
                   /\ e.mirror = "placed" <=>
                         /\ Len(calls') = Len(calls) + 1
                         /\ calls'[Len(calls')].ok
                         /\ calls'[Len(calls')].order_id = e.new_order_id
                         /\ e.new_order_id \in KeySet(grid_orders')
          /\ Len(calls') > Len(calls) =>
               LET c == calls'[Len(calls')]
               IN  /\ (c.op = "create" /\ c.of # NoId) =>
                         /\ Len(fill_log') = Len(fill_log) + 1
                         /\ fill_log'[Len(fill_log')].order.order_id = c.of
                   /\ c.op = "cancel" =>
                         /\ pc = "cancel"
                         /\ c.order_id \in KeySet(grid_orders)
                         /\ CancelRequestsFor(c.order_id) = {}]_vars

\* a session ended in which one order was replaced, its mirror was filled
\* and left vacant, and another order was cancelled in the cleanup
C28_Witness ==
    /\ result.kind = "summary"
    /\ \E a, b, c \in PlacedIds :
          /\ Outcomes(a) = {"Replaced"}
          /\ Outcomes(b) = {"Vacant"}
          /\ Outcomes(c) = {"CancelledAtShutdown"}
          /\ \E k \in FillsOf(a) : fill_log[k].new_order_id = b

(***************************************************************************)
(* C29: an entry of the tracker does not change while its id is tracked:   *)
(* in every step an id tracked before and after has the same side, price,  *)
(* grid level and quantity; an id enters the tracker once, being new to    *)
(* the session, and the tracker holds one entry per id; the step that      *)
(* replaces a filled order removes its entry and adds one under another    *)
(* id.                                                                     *)
(***************************************************************************)
C29_TrackedOrderIsImmutable ==
    /\ [](/\ Cardinality(KeySet(grid_orders)) = Len(grid_orders)
          /\ \A k \in 1 .. Len(grid_orders) :
                /\ grid_orders[k].order_id # NoId
                /\ grid_orders[k].order_id < next_order_id
                /\ \E j \in 1 .. Len(calls) :
                      /\ calls[j].op = "create" /\ calls[j].ok
                      /\ grid_orders[k] =
                            TrackedOrder(calls[j].order_id, calls[j].side,
                                         calls[j].price, calls[j].grid_level,
                                         calls[j].quantity))
    /\ [][/\ \A id \in KeySet(grid_orders) \cap KeySet(grid_orders') :
               Lookup(grid_orders', id) = Lookup(grid_orders, id)
          /\ \A id \in KeySet(grid_orders') \ KeySet(grid_orders) :
               /\ id \notin PlacedIds
               /\ \A k \in 1 .. Len(fill_log) :
                     fill_log[k].order.order_id # id
          /\ (Len(fill_log') = Len(fill_log) + 1
                /\ fill_log'[Len(fill_log')].mirror = "placed") =>
               LET e == fill_log'[Len(fill_log')]
               IN  /\ e.order.order_id \in KeySet(grid_orders)
                   /\ e.order.order_id \notin KeySet(grid_orders')
                   /\ e.new_order_id # e.order.order_id
                   /\ KeySet(grid_orders') \ KeySet(grid_orders)
                         = {e.new_order_id}]_vars

\* a filled order was replaced under a new id while another order rested
\* in the tracker, before and after
C29_Witness ==
    /\ Len(fill_log) = 1
    /\ fill_log[1].mirror = "placed"
    /\ Len(grid_orders) = 2
    /\ fill_log[1].new_order_id = grid_orders[2].order_id
    /\ grid_orders[1].order_id < fill_log[1].order.order_id

(***************************************************************************)
(* C30: no step of a session lowers a counter (orders placed and fills,    *)
(* per side, and cycles); the cycle counter moves by one, in the step that *)
(* starts a loop iteration and attempts its fetch, and in no other; so the *)
(* counter, and the cycles of the summary, equal the number of open-orders *)
(* fetches attempted, and the summary reports the counters as they stand.  *)
(***************************************************************************)
FetchCalls == SelectSeq(calls, LAMBDA c : c.op = "open_orders")

C31_NoLostExposure ==
    /\ \A id \in PlacedIds :
          id \in KeySet(grid_orders) \/ FillsOf(id) # {}
    /\ pc = "done" =>
          \A id \in PlacedIds :
             FillsOf(id) # {} \/ CancelRequestsFor(id) # {}

(***************************************************************************)
(* C32: with order ids unique in the session, at the end of the initial    *)
(* placement and at the end of every monitoring cycle the number of        *)
(* tracked orders is (BUY orders placed + SELL orders placed) - (BUY fills *)
(* + SELL fills); every step changes the two sides of this equation by the *)
(* same amount.                                                            *)
(***************************************************************************)
PlacedCount == total_buy_orders_placed + total_sell_orders_placed
FillCount == total_buy_fills + total_sell_fills

C32_TrackerAccounting ==
    /\ [](pc \in {"loop", "sleepcheck", "sleeping", "cancel"} =>
             Len(grid_orders) = PlacedCount - FillCount)
    /\ [][Len(grid_orders') - Len(grid_orders)
             = (PlacedCount' - PlacedCount) - (FillCount' - FillCount)]_vars

\* the end of a cycle that counted two fills, replaced one and had the
\* replacement of the other rejected: three orders placed, two filled, one
\* tracked
C32_Witness ==
    /\ pc = "sleepcheck"
    /\ snap.ok
    /\ Len(fill_log) = 2
    /\ \E k \in 1 .. 2 : fill_log[k].mirror = "placed"
    /\ \E k \in 1 .. 2 : fill_log[k].mirror = "rejected"
    /\ PlacedCount = 3 /\ FillCount = 2
    /\ Len(grid_orders) = 1

(***************************************************************************)
(* C33: with order ids unique in the session, in every state every tracked *)
(* order is on one of the grid levels 0 .. 2 * num_grids - 1 and every     *)
(* level has at most one tracked order, so the tracker holds at most       *)
(* 2 * num_grids orders; once the initial placement is over, a level       *)
(* without a tracked order has none for the rest of the session, so a      *)
(* level whose count has dropped to zero stays at zero.                    *)
(***************************************************************************)
Levels == 0 .. 2 * num_grids - 1

LevelsOf(d) == {d[k].grid_level : k \in 1 .. Len(d)}

C33_OneOrderPerLevel ==
    /\ [](/\ LevelsOf(grid_orders) \subseteq Levels
          /\ \A j, k \in 1 .. Len(grid_orders) :
                j < k => grid_orders[j].grid_level # grid_orders[k].grid_level
          /\ Len(grid_orders) <= 2 * num_grids
          /\ \A k \in 1 .. Len(fill_log) :
                fill_log[k].mirror # "placed" =>
                   fill_log[k].order.grid_level \notin LevelsOf(grid_orders))
    /\ [][(pc \notin {"idle", "place_buy", "place_sell"}
             /\ grid_orders' # grid_orders) =>
             LevelsOf(grid_orders') \subseteq LevelsOf(grid_orders)]_vars

\* a level was vacated in cycle 1 by a rejected replacement and is still
\* vacant after cycle 2, in which the order of the other level was filled
\* and replaced on its level
C33_Witness ==
    /\ pc = "sleepcheck"
    /\ Len(fill_log) = 2
    /\ fill_log[1].cycle = 1 /\ fill_log[1].mirror = "rejected"
    /\ fill_log[2].cycle = 2 /\ fill_log[2].mirror = "placed"
    /\ LevelCount(fill_log[1].order.grid_level) = 0
    /\ LevelCount(fill_log[2].order.grid_level) = 1

(***************************************************************************)
(* C34: when lower_bound, upper_bound and the step are multiples of the    *)
(* price tick, so that rounding changes no price, every tracked BUY has a  *)
(* price of at most upper_bound - step and every tracked SELL a price of   *)
(* at least lower_bound + step, in every state; no replacement is skipped  *)
(* for being outside the bounds; every order requested on a level carries  *)
(* the level's initial price, on the initial side, or the one adjacent     *)
(* price, on the other side; and a level is vacated only when the create   *)
(* call of its replacement did not return an order: the gateway rejected   *)
(* it, or Ctrl+C cut it short.                                             *)
(***************************************************************************)
TickAligned ==
    /\ num_grids > 0
    /\ lower_bound % TickSub = 0
    /\ upper_bound % TickSub = 0
    /\ grid_step % (TickSub * num_grids) = 0

\* the price and side an order on the given level starts with
InitialSide(level) == IF level < num_grids THEN "BUY" ELSE "SELL"
InitialPrice(level) ==
    IF level < num_grids
    THEN BuyPrice(lower_bound, upper_bound, num_grids, level)
    ELSE SellPrice(lower_bound, upper_bound, num_grids, level - num_grids)
AdjacentPrice(level) ==
    IF level < num_grids THEN InitialPrice(level) + grid_step
    ELSE InitialPrice(level) - grid_step

LastCall == calls[Len(calls)]

C35_CallOrdering ==
    /\ [](/\ (pc \notin {"cancel", "done"} /\ Len(calls) > 0) =>
                LastCall.op # "cancel"
          /\ pc = "done" =>
                \A j, k \in 1 .. Len(calls) :
                   (j < k /\ calls[j].op = "cancel") => calls[k].op = "cancel")
    /\ [][Len(calls') > Len(calls) =>
            LET c == calls'[Len(calls')]
            IN  /\ Len(calls') = Len(calls) + 1
                /\ c.op = "create" =>
                      /\ pc \in {"place_buy", "place_sell", "replace"}
                      /\ Len(calls) > 0 => LastCall.op # "cancel"
                      /\ cancel_keys = <<>>
                /\ c.op = "cancel" =>
                      /\ pc = "cancel"
                      /\ ~grid_running
                /\ c.op = "open_orders" =>
                      /\ pc = "loop"
                      /\ c.cycle = cycle_count'
                /\ (c.op = "create" /\ c.of # NoId) =>
                      /\ pc = "replace"
                      /\ snap.ok /\ snap.cycle = cycle_count
                      /\ \E j \in 1 .. Len(calls) :
                            /\ calls[j] = FetchCall(TRUE, cycle_count)
                            /\ \A k \in j + 1 .. Len(calls) :
                                  /\ calls[k].op = "create"
                                  /\ calls[k].of # NoId]_vars

\* a session that placed orders, fetched, placed a replacement and then
\* cancelled in its cleanup
C35_Witness ==
    /\ pc = "done"
    /\ result.kind = "summary"
    /\ \E j, k, l \in 1 .. Len(calls) :
          /\ j < k /\ k < l
          /\ calls[j].op = "open_orders"
          /\ calls[k].op = "create" /\ calls[k].of # NoId
          /\ calls[l].op = "cancel"

(***************************************************************************)
(* C36: with order ids unique in the session, every summary returned has   *)
(* orders_cancelled <= (total_buy_orders + total_sell_orders)              *)
(* - total_trades, with equality exactly when every cancel request of the  *)
(* cleanup succeeded; the cleanup makes one request per order left in the  *)
(* tracker and counts the requests that succeeded.                         *)
(***************************************************************************)
C36_ShutdownAccounting ==
    /\ [](result.kind = "summary" =>
            LET left == (result.total_buy_orders + result.total_sell_orders)
                           - result.total_trades
            IN  /\ result.orders_cancelled <= left
                /\ result.orders_cancelled = left <=>
                      \A j \in 1 .. Len(calls) :
                         calls[j].op = "cancel" => calls[j].ok
                /\ left = Len(grid_orders)
                /\ Len(CancelCalls) = left)
    /\ [][/\ Len(calls') > Len(calls) =>
               LET c == calls'[Len(calls')]
               IN  c.op = "cancel" =>
                      /\ cancelled_count' =
                            cancelled_count + (IF c.ok THEN 1 ELSE 0)
                      /\ cancelled_count' <= i'
                      /\ i' <= Len(cancel_keys)
                      /\ Len(cancel_keys) = PlacedCount - FillCount
          /\ cancelled_count' # cancelled_count =>
               /\ Len(calls') > Len(calls)
               /\ calls'[Len(calls')].op = "cancel"]_vars

\* a summary after fills, with two orders left in the tracker: one cancel
\* request failed and one succeeded, orders_cancelled is below the bound
C36_Witness ==
    /\ result.kind = "summary"
    /\ result.total_trades > 0
    /\ result.orders_cancelled = 1
    /\ (result.total_buy_orders + result.total_sell_orders)
          - result.total_trades = 2
    /\ \E j \in 1 .. Len(calls) : calls[j].op = "cancel" /\ ~calls[j].ok

\* a summary after a cleanup in which every cancel request succeeded
C36_WitnessEquality ==
    /\ result.kind = "summary"
    /\ result.total_trades > 0
    /\ result.orders_cancelled = 2
    /\ (result.total_buy_orders + result.total_sell_orders)
          - result.total_trades = 2

(***************************************************************************)
(* C37: a monitoring cycle whose fetch finds every tracked order id in the *)
(* open set changes neither the tracker nor the counters of orders placed  *)
(* and of fills and makes no create request, whatever other orders the     *)
(* open set holds: the cycle consists of its fetch and goes to the sleep.  *)
(***************************************************************************)
StableFetchNow ==
    /\ pc = "loop"
    /\ Len(calls') = Len(calls) + 1
    /\ calls'[Len(calls')].op = "open_orders"
    /\ calls'[Len(calls')].ok
    /\ KeySet(grid_orders) \subseteq exchange_open

StableCycleEnds ==
    /\ pc = "sleepcheck"
    /\ snap.ok
    /\ snap.cycle = cycle_count
    /\ KeySet(snap.tracked) \subseteq snap.open

C37_StableCycleChangesNothing ==
    /\ [](StableCycleEnds =>
            /\ grid_orders = snap.tracked
            /\ total_buy_fills = snap.buy_fills
            /\ total_sell_fills = snap.sell_fills
            /\ LastCall = FetchCall(TRUE, cycle_count)
            /\ filled_order_ids = <<>>
            /\ \A k \in 1 .. Len(fill_log) : fill_log[k].cycle < cycle_count)
    /\ [][StableFetchNow =>
            /\ grid_orders' = grid_orders
            /\ counters' = counters
            /\ fill_log' = fill_log
            /\ next_order_id' = next_order_id
            /\ exchange_open' = exchange_open
            /\ filled_order_ids' = <<>>
            /\ pc' = "sleepcheck"]_vars

\* the end of a cycle that found both tracked orders open, next to an order
\* that is not the engine's, after an earlier cycle had replaced a fill
C37_Witness ==
    /\ StableCycleEnds
    /\ cycle_count = 2
    /\ Len(grid_orders) = 2
    /\ ForeignOrderId \in snap.open
    /\ ForeignOrderId \notin KeySet(grid_orders)
    /\ Len(fill_log) = 1
    /\ fill_log[1].mirror = "placed"

(***************************************************************************)
(* C38: the filled ids of a cycle are computed once, from the tracker as   *)
(* it is when the open orders are fetched, so a replacement placed in a    *)
(* cycle is not examined for a fill in that cycle; each grid level has at  *)
(* most one fill counted per cycle, and after c cycles at most             *)
(* 2 * num_grids * c fills are counted.                                    *)
(***************************************************************************)
ReplacementsOfCycle(c) ==
    {fill_log[k].new_order_id :
        k \in {l \in 1 .. Len(fill_log) :
                 fill_log[l].cycle = c /\ fill_log[l].mirror = "placed"}}

C38_ReplacementWaitsForNextCycle ==
    /\ [](/\ pc = "replace" =>
                /\ Range(filled_order_ids) \subseteq KeySet(snap.tracked)
                /\ Range(filled_order_ids) \cap ReplacementsOfCycle(cycle_count)
                      = {}
          /\ \A j, k \in 1 .. Len(fill_log) :
                (j < k /\ fill_log[j].cycle = fill_log[k].cycle) =>
                   fill_log[j].order.grid_level # fill_log[k].order.grid_level
          /\ FillCount <= 2 * num_grids * cycle_count
          /\ Len(fill_log) <= 2 * num_grids * cycle_count)
    /\ [][/\ Len(fill_log') > Len(fill_log) =>
               LET e == fill_log'[Len(fill_log')]
               IN  /\ e.cycle = cycle_count
                   /\ e.order.order_id \in KeySet(snap.tracked)
                   /\ e.order.order_id \notin snap.open
                   /\ e.new_order_id \notin Range(filled_order_ids')
                   /\ e.order.order_id = Head(filled_order_ids)
                   /\ Processed(e) =>
                         filled_order_ids' = Tail(filled_order_ids)
          /\ filled_order_ids' # filled_order_ids =>
               \/ pc = "loop" /\ Len(FetchCalls') = Len(FetchCalls) + 1
               \/ pc = "replace"
                    /\ filled_order_ids' = Tail(filled_order_ids)]_vars

\* a cycle counted a fill on each of the two levels, the bound of
\* 2 * num_grids fills for one cycle, and placed a replacement that is in
\* the tracker without having been examined
C38_Witness ==
    /\ pc = "sleepcheck"
    /\ Valid
    /\ cycle_count = 1
    /\ Len(fill_log) = 2 * num_grids
    /\ fill_log[1].mirror = "placed"
    /\ fill_log[1].new_order_id \in KeySet(grid_orders)
    /\ fill_log[1].new_order_id \notin snap.open

(***************************************************************************)
(* C39: for valid inputs, with a gateway that answers every call (with an  *)
(* order or with an error), execute_twap_order terminates, having made     *)
(* exactly numChunks chunk attempts, and returns a summary, never None and *)
(* never an exception, whatever the outcomes of the chunks.                *)
(***************************************************************************)
C39_TwapAlwaysReturnsSummary ==
    /\ <>(twap_pc = "done")
    /\ (TwapInputsValid /\ twap_pc = "idle") ~>
          (/\ twap_pc = "done"
           /\ TwapReturned
           /\ Len(TwapCreates) = NumChunks
           /\ twap_result.total_chunks = NumChunks
           /\ twap_result.executed_chunks + twap_result.failed_chunks
                 = NumChunks)
    /\ [](TwapInputsValid =>
            /\ twap_result.kind \in {"pending", "summary"}
            /\ twap_pc = "done" <=> TwapReturned
            /\ Len(TwapCreates) <= NumChunks
            /\ twap_pc \in {"chunk", "sleeping"} => chunk_i < NumChunks)
    /\ [][twap_pc = "done" => UNCHANGED twap_vars]_vars

\* a call of three chunks returned its summary although the gateway
\* refused every chunk
C39_Witness ==
    /\ TwapInputsValid
    /\ twap_pc = "done"
    /\ TwapReturned
    /\ NumChunks = 3
    /\ Len(TwapCreates) = 3
    /\ twap_result.executed_chunks = 0
    /\ twap_result.failed_chunks = 3
    /\ \E k \in 1 .. 3 : failed_orders[k].error_code = Unknown

(***************************************************************************)
(* C40: place_oco_for_position submits the take-profit order first and the *)
(* stop-loss order only after the take-profit order was accepted; it       *)
(* returns both answers if and only if both orders were accepted, and None *)
(* if an order fails (or an argument is invalid, no order being submitted  *)
(* then).                                                                  *)
(***************************************************************************)
OcoValid == OcoParamsValid(oco_symbol, position_side, position_quantity,
                           take_profit_price, stop_price)

OcoAccepted(k) == Len(oco_calls) >= k /\ oco_calls[k].outcome = "ok"

C40_OcoTakeProfitThenStopLoss ==
    /\ Len(oco_calls) <= 2
    /\ Len(oco_calls) >= 1 =>
          /\ OcoValid
          /\ oco_calls[1].params.type = "TAKE_PROFIT_MARKET"
          /\ oco_calls[1].params.stopPrice = take_profit_price
    /\ Len(oco_calls) = 2 =>
          /\ OcoAccepted(1)
          /\ oco_calls[2].params.type = "STOP_MARKET"
          /\ oco_calls[2].params.stopPrice = stop_price
          /\ oco_calls[2].params.side = oco_calls[1].params.side
    /\ oco_pc # "done" => oco_result = OcoPending
    /\ oco_pc = "stop_loss" => OcoAccepted(1) /\ Len(oco_calls) = 1
    /\ oco_pc = "done" =>
          /\ oco_result.kind \in {"dict", "None"}
          /\ oco_result.kind = "dict" <=> (OcoAccepted(1) /\ OcoAccepted(2))
          /\ oco_result.kind = "dict" =>
                /\ oco_result.take_profit = oco_calls[1].response
                /\ oco_result.stop_loss = oco_calls[2].response
                /\ oco_result.take_profit.orderId # NoId
                /\ oco_result.stop_loss.orderId # NoId
          /\ (\E k \in 1 .. Len(oco_calls) : oco_calls[k].outcome # "ok") =>
                oco_result = OcoNone
          /\ (OcoValid /\ OcoAccepted(1)) => Len(oco_calls) = 2

\* the take-profit order was accepted, the stop-loss order was refused by
\* the gateway, and None was returned
C40_Witness ==
    /\ oco_pc = "done"
    /\ Len(oco_calls) = 2
    /\ oco_calls[1].outcome = "ok"
    /\ oco_calls[2].outcome = "api_error"
    /\ oco_result = OcoNone

\* both orders of a SHORT position were accepted and both answers returned
C40_WitnessBoth ==
    /\ oco_pc = "done"
    /\ Upper(position_side) = SHORT
    /\ oco_result.kind = "dict"
    /\ oco_result.take_profit.type = "TAKE_PROFIT_MARKET"
    /\ oco_result.stop_loss.type = "STOP_MARKET"
    /\ oco_result.take_profit.side = "BUY"

====
